---- MODULE Spec2Model ----
(***************************************************************************)
(* Delegation checker (check_delegation.ts and the DelegationChecker      *)
(* components): key parsing, PDA derivation, the network read and its     *)
(* classification, the sequential batch, and the ping transaction.        *)
(*                                                                         *)
(* Text is a sequence of one-character strings, a byte buffer a sequence   *)
(* of numbers 0..255, a PublicKey its 32 bytes.  An optional value is      *)
(* Absent or Some(v).  A call that can throw yields Return(v) or Throw(e). *)
(***************************************************************************)
EXTENDS Integers, Sequences, FiniteSets, TLC

Absent == <<>>

Some(x) == <<x>>

Undefined == <<"undefined">>

Return(v) == [threw |-> FALSE, value |-> v, error |-> Absent]

Throw(e) == [threw |-> TRUE, value |-> Absent, error |-> e]

Error(msg) == [isError |-> TRUE, name |-> "Error", message |-> msg]

TypeError(msg) == [isError |-> TRUE, name |-> "TypeError", message |-> msg]

\* a thrown value that is not an instance of Error
NonError(msg) == [isError |-> FALSE, name |-> "value", message |-> msg]

\* The element of a one-element set; { e(v) : v \in {x} } computes x once
Only(S) == CHOOSE r \in S : TRUE

Reverse(s) == [i \in 1..Len(s) |-> s[Len(s) + 1 - i]]

Repeat(x, n) == [i \in 1..n |-> x]

\* Array.prototype.slice(start, end) on a buffer
Slice(s, start, end) ==
  SubSeq(s, start + 1, IF end < Len(s) THEN end ELSE Len(s))

RECURSIVE LeadingCount(_, _)
LeadingCount(s, x) ==
  IF s # <<>> /\ s[1] = x THEN 1 + LeadingCount(Tail(s), x) ELSE 0

HasPrefix(s, p) == Len(s) >= Len(p) /\ SubSeq(s, 1, Len(p)) = p

(***************************************************************************)
(* Constants of the program and the inputs of the model.                   *)
(***************************************************************************)
ALPHABET ==
  <<"1", "2", "3", "4", "5", "6", "7", "8", "9", "A", "B", "C", "D", "E",
    "F", "G", "H", "J", "K", "L", "M", "N", "P", "Q", "R", "S", "T", "U",
    "V", "W", "X", "Y", "Z", "a", "b", "c", "d", "e", "f", "g", "h", "i",
    "j", "k", "m", "n", "o", "p", "q", "r", "s", "t", "u", "v", "w", "x",
    "y", "z">>

DELEGATION_PROGRAM_STR ==
  <<"D", "E", "L", "e", "G", "G", "v", "X", "p", "W", "V", "2", "f", "q",
    "J", "U", "h", "q", "c", "F", "5", "Z", "S", "Y", "M", "S", "4", "J",
    "T", "L", "j", "t", "e", "a", "A", "M", "A", "R", "R", "S", "a", "e",
    "S", "h">>

DEFAULT_RPC_URL ==
  <<"h", "t", "t", "p", "s", ":", "/", "/", "a", "p", "i", ".", "d", "e",
    "v", "n", "e", "t", ".", "s", "o", "l", "a", "n", "a", ".", "c", "o",
    "m">>

SeedDelegation ==
  <<100, 101, 108, 101, 103, 97, 116, 105, 111, 110>>

PdaMarker ==
  <<80, 114, 111, 103, 114, 97, 109, 68, 101, 114, 105, 118, 101, 100, 65,
    100, 100, 114, 101, 115, 115>>

ProgramBytes ==
  <<181, 183, 0, 225, 242, 87, 58, 192, 204, 6, 34, 1, 52, 74, 207, 151,
    184, 53, 6, 235, 140, 229, 25, 152, 204, 98, 126, 24, 147, 128, 167,
    62>>

KeyAStr ==
  <<"9", "W", "z", "D", "X", "w", "B", "b", "m", "k", "g", "8", "Z", "T",
    "b", "N", "M", "q", "U", "x", "v", "Q", "R", "A", "y", "r", "Z", "z",
    "D", "s", "G", "Y", "d", "L", "V", "L", "9", "z", "Y", "t", "A", "W",
    "W", "M">>

KeyABytes ==
  <<126, 140, 8, 135, 96, 191, 222, 29, 221, 207, 50, 193, 127, 32, 155,
    130, 66, 238, 82, 170, 241, 49, 250, 205, 136, 208, 234, 44, 109, 11,
    6, 242>>

KeyBStr ==
  <<"1", "1", "1", "1", "1", "1", "1", "1", "1", "1", "1", "1", "1", "1",
    "1", "1", "1", "1", "1", "1", "1", "1", "1", "1", "1", "1", "1", "1",
    "1", "1", "1", "1">>

DigestA255 ==
  <<70, 206, 122, 161, 249, 35, 89, 205, 225, 72, 76, 30, 96, 169, 148, 39,
    17, 229, 98, 99, 183, 53, 15, 32, 131, 6, 212, 13, 218, 252, 138, 147>>

DigestA254 ==
  <<110, 204, 102, 198, 248, 124, 2, 194, 238, 30, 17, 255, 245, 116, 198,
    246, 38, 237, 223, 84, 12, 132, 219, 142, 12, 129, 102, 144, 217, 186,
    100, 218>>

DigestA253 ==
  <<106, 12, 50, 54, 244, 243, 154, 67, 69, 20, 57, 137, 46, 25, 220, 83,
    164, 251, 61, 55, 251, 91, 25, 160, 9, 221, 4, 206, 135, 43, 106, 67>>

DigestB255 ==
  <<16, 80, 24, 175, 56, 9, 122, 95, 13, 5, 143, 161, 172, 14, 129, 129,
    91, 250, 193, 239, 162, 231, 227, 34, 74, 57, 248, 210, 147, 51, 66,
    102>>

PdaAStr ==
  <<"8", "8", "y", "1", "8", "j", "r", "w", "L", "G", "F", "q", "r", "p",
    "q", "a", "8", "V", "F", "M", "S", "n", "9", "u", "s", "i", "v", "y",
    "5", "A", "n", "P", "N", "E", "r", "f", "E", "o", "f", "n", "m", "y",
    "T", "G">>

PdaBStr ==
  <<"2", "6", "g", "M", "v", "t", "d", "k", "k", "t", "V", "M", "p", "Y",
    "M", "g", "p", "o", "c", "2", "x", "m", "d", "3", "1", "9", "m", "E",
    "z", "8", "E", "3", "T", "r", "d", "K", "K", "H", "r", "p", "B", "t",
    "T", "w">>

AllOnesStr ==
  <<"J", "E", "K", "N", "V", "n", "k", "b", "o", "3", "j", "m", "a", "5",
    "n", "R", "E", "B", "B", "J", "C", "D", "o", "X", "F", "V", "e", "K",
    "k", "D", "5", "6", "V", "3", "x", "K", "r", "v", "R", "m", "W", "x",
    "F", "G">>

DELEGATION_RECORD_DATA_SIZE == 96

NotAKeyStr == <<"n", "o", "t", "-", "a", "-", "k", "e", "y">>

ShortStr == <<"a", "b", "c">>

LongStr == <<"1">> \o KeyAStr

CustomUrl ==
  <<"h", "t", "t", "p", ":", "/", "/", "l", "o", "c", "a", "l", "h", "o",
    "s", "t", ":", "8", "8", "9", "9">>

BadUrl ==
  <<"a", "p", "i", ".", "d", "e", "v", "n", "e", "t", ".", "s", "o", "l",
    "a", "n", "a", ".", "c", "o", "m">>

\* an http: URL without "//" and a host after the scheme
NoHostUrl ==
  <<"h", "t", "t", "p", ":", "l", "o", "c", "a", "l", "h", "o", "s", "t">>

(***************************************************************************)
(* bs58: base conversion by repeated multiply-and-add on a digit array.    *)
(***************************************************************************)
\* the digit of each character of the alphabet
BASE_MAP ==
  [c \in {ALPHABET[i] : i \in 1..Len(ALPHABET)} |->
     (CHOOSE i \in 1..Len(ALPHABET) : ALPHABET[i] = c) - 1]

RECURSIVE MulAdd(_, _, _, _)
\* ds, little-endian digits in base b, becomes ds * mul + carry
MulAdd(ds, mul, carry, b) ==
  IF ds = <<>>
  THEN IF carry = 0 THEN <<>>
       ELSE <<carry % b>> \o MulAdd(<<>>, mul, carry \div b, b)
  ELSE LET t == ds[1] * mul + carry
       IN  <<t % b>> \o MulAdd(Tail(ds), mul, t \div b, b)

RECURSIVE Convert(_, _, _, _)
\* the digits of src (base `from`, most significant first) in base `to`,
\* least significant first, without leading zero digits
Convert(src, acc, from, to) ==
  IF src = <<>> THEN acc
  ELSE Only({ Convert(Tail(src), next, from, to) :
              next \in {MulAdd(acc, from, src[1], to)} })

\* Convert, two digits at a time on either side: the digits of src (base
\* `from`, most significant first) in base `to`, most significant first
Digits(src, from, to) ==
  LET Padded(digits) ==
        IF Len(digits) % 2 = 1 THEN <<0>> \o digits ELSE digits
      Pairs(padded) == [i \in 1..(Len(padded) \div 2) |->
                          padded[2 * i - 1] * from + padded[2 * i]]
      Low(limbs) == [i \in 1..(2 * Len(limbs)) |->
                IF i % 2 = 1 THEN limbs[(i + 1) \div 2] % to
                ELSE limbs[i \div 2] \div to]
      Strip(low) ==
        Reverse(IF Len(low) > 0 /\ low[Len(low)] = 0
                THEN SubSeq(low, 1, Len(low) - 1) ELSE low)
  IN  Only({ Only({ Only({ Strip(low) : low \in {Low(limbs)} }) :
                     limbs \in {Convert(pairs, <<>>, from * from, to * to)} }) :
              pairs \in { Only({ Pairs(padded) : padded \in {Padded(digits)} }) :
                          digits \in {src} } })

Base58Encode(bytes) ==
  Only({ Only({ Repeat("1", LeadingCount(source, 0))
                  \o [i \in 1..Len(b58) |-> ALPHABET[b58[i] + 1]] :
                b58 \in {Digits(source, 256, 58)} }) :
         source \in {bytes} })

Base58Decode(str) ==
  IF \E i \in 1..Len(str) : str[i] \notin DOMAIN BASE_MAP
  THEN Throw(Error(<<"Non-base58 character">>))
  ELSE Only({ Return(Repeat(0, LeadingCount(str, "1"))
                       \o Digits(digits, 58, 256)) :
              digits \in {[i \in 1..Len(str) |-> BASE_MAP[str[i]]]} })

(***************************************************************************)
(* PublicKey of @solana/web3.js.                                           *)
(***************************************************************************)
\* new PublicKey(value: string)
PublicKeyFromString(value) ==
  Only({ IF decoded.threw THEN decoded
         ELSE IF Len(decoded.value) # 32
         THEN Throw(Error(<<"Invalid public key input">>))
         ELSE Return(decoded.value) :
         decoded \in {Base58Decode(value)} })

\* new PublicKey(value: Uint8Array): the number the bytes spell, as 32 bytes
PublicKeyFromBytes(value) ==
  LET zeroes == LeadingCount(value, 0)
      bn == SubSeq(value, zeroes + 1, Len(value))
  IN  IF Len(bn) > 32
      THEN Throw(Error(<<"Invalid public key input">>))
      ELSE Return(Repeat(0, 32 - Len(bn)) \o bn)

\* PublicKey.toString() / toBase58()
PublicKeyToString(pk) == Base58Encode(pk)

(***************************************************************************)
(* Program address derivation.  SHA-256 is not computed in this module:    *)
(* the derivation takes the digests as a function of the preimage.  Sha256 *)
(* is the hash itself, tabulated for the preimages the keys of the model   *)
(* produce, and the curve test is tabulated for its digests.               *)
(***************************************************************************)
PdaPreimage(seeds, programId) ==
  LET RECURSIVE Cat(_)
      Cat(ss) == IF ss = <<>> THEN <<>> ELSE ss[1] \o Cat(Tail(ss))
  IN  Cat(seeds) \o programId \o PdaMarker

Sha256 ==
  [buffer \in Seq(0..255) |->
     CASE buffer = PdaPreimage(<<SeedDelegation, KeyABytes, <<255>>>>, ProgramBytes)
            -> DigestA255
       [] buffer = PdaPreimage(<<SeedDelegation, KeyABytes, <<254>>>>, ProgramBytes)
            -> DigestA254
       [] buffer = PdaPreimage(<<SeedDelegation, KeyABytes, <<253>>>>, ProgramBytes)
            -> DigestA253
       [] buffer = PdaPreimage(<<SeedDelegation, Repeat(0, 32), <<255>>>>, ProgramBytes)
            -> DigestB255]

\* digests other than those of SHA-256, for the runs of the bump search
\* that no known key gives: the candidate of a bump in `bumps` has a digest
\* off the curve, the candidate of any other bump a digest on it.  The bump
\* is the last byte of the seeds, before the program id and the marker.
DigestsOffCurveAt(bumps) ==
  [buffer \in Seq(0..255) |->
     IF buffer[Len(buffer) - Len(ProgramBytes) - Len(PdaMarker)] \in bumps
     THEN DigestA253 ELSE DigestA255]

IsOnCurve(digest) == digest \in {DigestA255, DigestA254}

\* PublicKey.createProgramAddressSync
CreateProgramAddress(seeds, programId, sha256) ==
  Only({ IF IsOnCurve(hash)
         THEN Throw(Error(<<"Invalid seeds, address must fall off the curve">>))
         ELSE Return(hash) :
         hash \in {sha256[PdaPreimage(seeds, programId)]} })

\* mutant: when every bump is used up the candidate of bump 0 is returned
FindProgramAddressPass_ReturnsLastCandidate(seeds, programId, nonce, sha256) ==
  IF nonce = 0
  THEN [done |-> TRUE, nonce |-> 0,
        outcome |-> Return(<<sha256[PdaPreimage(seeds \o <<<<0>>>>,
                                                programId)], 0>>)]
  ELSE Only({ IF address.threw
              THEN [done |-> FALSE, nonce |-> nonce - 1,
                    outcome |-> Absent]
              ELSE [done |-> TRUE, nonce |-> nonce,
                    outcome |-> Return(<<address.value, nonce>>)] :
              address \in {CreateProgramAddress(seeds \o <<<<nonce>>>>,
                                                programId, sha256)} })

\* one pass of the loop of PublicKey.findProgramAddressSync, `while (nonce
\* != 0)` with its exit: the candidate of the nonce is returned with it, or
\* the nonce is counted down when the candidate is refused; after the loop
\* the function throws
FindProgramAddressPass(seeds, programId, nonce, sha256) ==
  IF nonce = 0
  THEN [done |-> TRUE, nonce |-> 0,
        outcome |-> Throw(Error(
                      <<"Unable to find a viable program address nonce">>))]
  ELSE Only({ IF address.threw
              THEN [done |-> FALSE, nonce |-> nonce - 1,
                    outcome |-> Absent]
              ELSE [done |-> TRUE, nonce |-> nonce,
                    outcome |-> Return(<<address.value, nonce>>)] :
              address \in {CreateProgramAddress(seeds \o <<<<nonce>>>>,
                                                programId, sha256)} })

RECURSIVE FindProgramAddress(_, _, _, _)
\* PublicKey.findProgramAddressSync: the loop, begun at `nonce`
FindProgramAddress(seeds, programId, nonce, sha256) ==
  Only({ IF pass.done THEN pass.outcome
         ELSE FindProgramAddress(seeds, programId, pass.nonce, sha256) :
         pass \in {FindProgramAddressPass(seeds, programId, nonce, sha256)} })

getDelegationRecordPDA(accountPubkey) ==
  Only({ Only({ Only({ IF found.threw THEN found
                       ELSE Return(found.value[1]) :
                       found \in {FindProgramAddress(
                                    seeds, delegationProgram.value, 255,
                                    Sha256)} }) :
                seeds \in {<<SeedDelegation, accountPubkey>>} }) :
         delegationProgram \in {PublicKeyFromString(DELEGATION_PROGRAM_STR)} })

\* mutant: the identity is cut from the start of the record
extractDelegationIdentity_FromStart(data) ==
  IF Len(data) # DELEGATION_RECORD_DATA_SIZE THEN Return(Absent)
  ELSE LET key == PublicKeyFromBytes(Slice(data, 0, 32))
       IN  IF key.threw THEN key ELSE Return(Some(key.value))

\* mutant: only records that are too short are refused
extractDelegationIdentity_AcceptsLonger(data) ==
  IF Len(data) < DELEGATION_RECORD_DATA_SIZE THEN Return(Absent)
  ELSE LET key == PublicKeyFromBytes(Slice(data, 8, 40))
       IN  IF key.threw THEN key ELSE Return(Some(key.value))

\* mutant: a record is refused only when it ends before the identity does
extractDelegationIdentity_NeedsOnlyIdentity(data) ==
  IF Len(data) < 40 THEN Return(Absent)
  ELSE LET key == PublicKeyFromBytes(Slice(data, 8, 40))
       IN  IF key.threw THEN key ELSE Return(Some(key.value))

\* mutant: the identity is cut one byte late
extractDelegationIdentity_OffByOne(data) ==
  IF Len(data) # DELEGATION_RECORD_DATA_SIZE THEN Return(Absent)
  ELSE LET key == PublicKeyFromBytes(Slice(data, 9, 41))
       IN  IF key.threw THEN key ELSE Return(Some(key.value))

\* mutant: a record counts only with the discriminator of the program
extractDelegationIdentity_ChecksDiscriminator(data) ==
  IF Len(data) # DELEGATION_RECORD_DATA_SIZE \/ Slice(data, 0, 8) # Repeat(100, 8)
  THEN Return(Absent)
  ELSE LET key == PublicKeyFromBytes(Slice(data, 8, 40))
       IN  IF key.threw THEN key ELSE Return(Some(key.value))

extractDelegationIdentity(data) ==
  IF Len(data) # DELEGATION_RECORD_DATA_SIZE THEN Return(Absent)
  ELSE LET identityBytes == Slice(data, 8, 40)
           key == PublicKeyFromBytes(identityBytes)
       IN  IF key.threw THEN key ELSE Return(Some(key.value))

(***************************************************************************)
(* checkDelegation.  The function runs to its await of getAccountInfo      *)
(* (CheckDelegationStart) and is resumed when the read settles             *)
(* (CheckDelegationResolved, CheckDelegationRejected).  Each part yields   *)
(* the invocation's new state and the read requests it put on the network. *)
(***************************************************************************)
\* console: what the invocation wrote with console.log and console.error
IdleCall ==
  [pc |-> "idle", accountPubkeyStr |-> Undefined, rpcUrl |-> Undefined,
   connection |-> Absent, delegationPDA |-> Absent, settled |-> Absent,
   result |-> Absent, error |-> Absent, console |-> <<>>]

\* console.log(...): one line on stdout, of the given parts.  In a text of
\* this module a character that its strings cannot hold is written as its
\* code point ("U+0060" is the backquote).
ConsoleLog(parts) == [stream |-> "stdout", parts |-> parts]

\* console.error(...): one line on stderr
ConsoleError(parts) == [stream |-> "stderr", parts |-> parts]

\* the invocation after it wrote a line to the console
Logged(invocation, line) ==
  [invocation EXCEPT !.console = Append(@, line)]

\* the lines of a console that went to one stream
Written(console, stream) ==
  LET OnStream(line) == line.stream = stream
      lines == SelectSeq(console, OnStream)
  IN  [i \in 1..Len(lines) |-> lines[i].parts]

ErrorMessage(error) ==
  IF error.isError THEN error.message ELSE <<"Unknown error">>

\* makeWebsocketUrl: the endpoint is matched against
\*   /^[^:]+:\/\/([^:[]+|\[[^\]]+\])(:\d+)?(.*)/i
\* (a scheme, "://", a host that is a run of characters other than ":" and
\* "[" or a bracketed run, a port, and the rest of the line); the websocket
\* URL has the ws: or wss: scheme and the port after the endpoint's
MakeWebsocketUrl(endpoint) ==
  LET DecimalDigits == <<"0", "1", "2", "3", "4", "5", "6", "7", "8", "9">>
      \* parseInt(text, 10) of a run of decimal digits
      ParseInt(text) ==
        LET Digit(c) == CHOOSE d \in 0..9 : DecimalDigits[d + 1] = c
            RECURSIVE Value(_)
            Value(k) == IF k = 0 THEN 0
                        ELSE Value(k - 1) * 10 + Digit(text[k])
        IN  Value(Len(text))
      \* String(k) of a natural number
      RECURSIVE NumberToString(_)
      NumberToString(k) ==
        IF k < 10 THEN <<DecimalDigits[k + 1]>>
        ELSE NumberToString(k \div 10) \o <<DecimalDigits[(k % 10) + 1]>>
      n == Len(endpoint)
      At(i) == IF i \in 1..n THEN endpoint[i] ELSE "U+FFFF"
      Colons == {i \in 1..n : endpoint[i] = ":"}
      colon == IF Colons = {} THEN 0
               ELSE CHOOSE i \in Colons : \A j \in Colons : i <= j
      start == colon + 3
      \* where a run begun at `from` ends, given the places that stop it
      RunEnd(from, stops) ==
        LET after == {i \in stops : i >= from}
        IN  IF after = {} THEN n
            ELSE (CHOOSE i \in after : \A j \in after : i <= j) - 1
      IsDigit(c) == \E d \in 1..10 : DecimalDigits[d] = c
      NotPlain == {i \in 1..n : endpoint[i] \in {":", "["}}
      Closing == {i \in 1..n : endpoint[i] = "]"}
      NotDigit == {i \in 1..n : ~IsDigit(endpoint[i])}
      LineEnd == {i \in 1..n :
                    endpoint[i] \in {"\n", "\r", "U+2028", "U+2029"}}
      plainEnd == RunEnd(start, NotPlain)
      bracketEnd == RunEnd(start + 1, Closing) + 1
      bracketed == /\ At(start) = "[" /\ bracketEnd >= start + 2
                   /\ At(bracketEnd) = "]"
      hostEnd == IF plainEnd >= start THEN plainEnd ELSE bracketEnd
      hostish == SubSeq(endpoint, start, hostEnd)
      portEnd == IF At(hostEnd + 1) = ":" /\ IsDigit(At(hostEnd + 2))
                 THEN RunEnd(hostEnd + 2, NotDigit) ELSE hostEnd
      websocketPort ==
        IF portEnd = hostEnd THEN <<>>
        ELSE <<":">> \o NumberToString(
                           ParseInt(SubSeq(endpoint, hostEnd + 2, portEnd)) + 1)
      rest == SubSeq(endpoint, portEnd + 1, RunEnd(portEnd + 1, LineEnd))
      protocol == IF HasPrefix(endpoint, <<"h", "t", "t", "p", "s", ":">>)
                  THEN <<"w", "s", "s", ":">> ELSE <<"w", "s", ":">>
  IN  IF /\ colon >= 2 /\ At(colon + 1) = "/" /\ At(colon + 2) = "/"
         /\ start <= n
         /\ (plainEnd >= start \/ bracketed)
      THEN Return(protocol \o <<"/", "/">> \o hostish \o websocketPort
                    \o rest)
      ELSE Throw(TypeError(<<"Failed to validate endpoint URL ", "U+0060">>
                           \o endpoint \o <<"U+0060">>))

\* new Connection(endpoint, commitment): assertEndpointUrl, for which
\* /^https?:/ must match, then the websocket endpoint is made
NewConnection(endpoint, commitment) ==
  LET asserted ==
        IF HasPrefix(endpoint, <<"h", "t", "t", "p", ":">>)
           \/ HasPrefix(endpoint, <<"h", "t", "t", "p", "s", ":">>)
        THEN Return(endpoint)
        ELSE Throw(TypeError(<<"Endpoint URL must start with ", "U+0060",
                               "http:", "U+0060", " or ", "U+0060", "https:",
                               "U+0060", ".">>))
  IN  IF asserted.threw THEN asserted
      ELSE Only({ IF websocket.threw THEN websocket
                  ELSE Return([rpcEndpoint |-> asserted.value,
                               rpcWsEndpoint |-> websocket.value,
                               commitment |-> commitment]) :
                  websocket \in {MakeWebsocketUrl(endpoint)} })

\* throw new Error(`Failed to check delegation: ...`)
CheckDelegationThrow(call, error) ==
  [call |-> [call EXCEPT
       !.pc = "threw",
       !.error = Some(Error(<<"Failed to check delegation: ">>
                            \o ErrorMessage(error)))],
   requests |-> <<>>]

\* mutant: the catch block answers NOT_DELEGATED instead of throwing
CheckDelegationCatch_Swallows(call, error) ==
  [call |-> [call EXCEPT
       !.pc = "returned",
       !.result = Some([accountPubkey |-> call.accountPubkeyStr,
                        delegationPDA |-> <<>>, status |-> "NOT_DELEGATED",
                        validatorIdentity |-> Absent, pdaAccount |-> Absent,
                        rawData |-> Absent])],
   requests |-> <<>>]

\* the catch block: the error is printed, and one error that wraps the
\* message of the cause is thrown
CheckDelegationCatch(call, error) ==
  CheckDelegationThrow(
     Logged(call, ConsoleError(<<"Error checking delegation:", error>>)),
     error)

CheckDelegationReturn(call, result) ==
  [call |-> [call EXCEPT !.pc = "returned", !.result = Some(result)],
   requests |-> <<>>]

\* mutant: the address is derived from the endpoint as well as the key: a
\* call given an rpcUrl derives the address of another key
CheckDelegationStart_DerivesPerEndpoint(accountPubkeyStr, rpcUrl) ==
  LET finalRpcUrl ==
        IF rpcUrl = Undefined \/ rpcUrl = <<>> THEN DEFAULT_RPC_URL ELSE rpcUrl
      call == [IdleCall EXCEPT
                 !.accountPubkeyStr = accountPubkeyStr,
                 !.rpcUrl = rpcUrl,
                 !.console =
                    <<ConsoleLog(<<"Checking delegation for account: ",
                                   accountPubkeyStr>>),
                      ConsoleLog(<<"Using RPC URL: ", finalRpcUrl>>)>>]
      accountPubkey == PublicKeyFromString(accountPubkeyStr)
      connection == NewConnection(finalRpcUrl, "confirmed")
      delegationPDA ==
        getDelegationRecordPDA(IF finalRpcUrl = DEFAULT_RPC_URL
                               THEN accountPubkey.value ELSE Repeat(0, 32))
  IN  IF accountPubkey.threw THEN CheckDelegationCatch(call, accountPubkey.error)
      ELSE IF connection.threw THEN CheckDelegationCatch(call, connection.error)
      ELSE IF delegationPDA.threw
      THEN CheckDelegationCatch(call, delegationPDA.error)
      ELSE [call |-> [call EXCEPT
                 !.pc = "awaitGetAccountInfo",
                 !.connection = Some(connection.value),
                 !.delegationPDA = Some(delegationPDA.value),
                 !.console = Append(@, ConsoleLog(
                    <<"Delegation PDA: ",
                      PublicKeyToString(delegationPDA.value)>>))],
            requests |-> <<[endpoint |-> connection.value.rpcEndpoint,
                            address |-> delegationPDA.value,
                            commitment |-> "confirmed"]>>]

CheckDelegationStart(accountPubkeyStr, rpcUrl) ==
  LET finalRpcUrl ==
        IF rpcUrl = Undefined \/ rpcUrl = <<>> THEN DEFAULT_RPC_URL ELSE rpcUrl
      call == [IdleCall EXCEPT
                 !.accountPubkeyStr = accountPubkeyStr,
                 !.rpcUrl = rpcUrl,
                 !.console =
                    <<ConsoleLog(<<"Checking delegation for account: ",
                                   accountPubkeyStr>>),
                      ConsoleLog(<<"Using RPC URL: ", finalRpcUrl>>)>>]
      accountPubkey == PublicKeyFromString(accountPubkeyStr)
      connection == NewConnection(finalRpcUrl, "confirmed")
      delegationPDA == getDelegationRecordPDA(accountPubkey.value)
  IN  IF accountPubkey.threw THEN CheckDelegationCatch(call, accountPubkey.error)
      ELSE IF connection.threw THEN CheckDelegationCatch(call, connection.error)
      ELSE IF delegationPDA.threw
      THEN CheckDelegationCatch(call, delegationPDA.error)
      ELSE [call |-> [call EXCEPT
                 !.pc = "awaitGetAccountInfo",
                 !.connection = Some(connection.value),
                 !.delegationPDA = Some(delegationPDA.value),
                 !.console = Append(@, ConsoleLog(
                    <<"Delegation PDA: ",
                      PublicKeyToString(delegationPDA.value)>>))],
            requests |-> <<[endpoint |-> connection.value.rpcEndpoint,
                            address |-> delegationPDA.value,
                            commitment |-> "confirmed"]>>]

\* mutant: a present account counts whatever its balance
NoDelegationAccount_IgnoresBalance(pdaAccountInfo) ==
  pdaAccountInfo = Absent

\* mutant: only a negative balance counts as no account
NoDelegationAccount_NegativeOnly(pdaAccountInfo) ==
  pdaAccountInfo = Absent \/ pdaAccountInfo[1].lamports < 0

\* !pdaAccountInfo || pdaAccountInfo.lamports === 0
NoDelegationAccount(pdaAccountInfo) ==
  pdaAccountInfo = Absent \/ pdaAccountInfo[1].lamports = 0

CheckDelegationResolved(call, pdaAccountInfo) ==
  LET result ==
        [accountPubkey |-> call.accountPubkeyStr,
         delegationPDA |-> PublicKeyToString(call.delegationPDA[1]),
         status |-> "NOT_DELEGATED",
         validatorIdentity |-> Absent, pdaAccount |-> Absent, rawData |-> Absent]
      settled == [call EXCEPT !.settled = Some(Return(pdaAccountInfo))]
  IN  IF NoDelegationAccount(pdaAccountInfo)
      THEN CheckDelegationReturn(
             Logged(settled, ConsoleLog(
                <<"No delegation found - PDA account ",
                  IF pdaAccountInfo # Absent THEN "exists but has 0 lamports"
                  ELSE "does not exist">>)),
             result)
      ELSE LET info == pdaAccountInfo[1]
               withAccount == [result EXCEPT !.pdaAccount = Some(
                   [lamports |-> info.lamports,
                    owner |-> PublicKeyToString(info.owner),
                    dataLength |-> Len(info.data),
                    executable |-> info.executable,
                    rentEpoch |-> info.rentEpoch])]
               validatorIdentity == extractDelegationIdentity(info.data)
           IN  IF validatorIdentity.threw
               THEN CheckDelegationCatch(settled, validatorIdentity.error)
               ELSE IF validatorIdentity.value # Absent
               THEN CheckDelegationReturn(
                      Logged(settled, ConsoleLog(
                         <<"U+2705", " Account is DELEGATED to validator: ",
                           PublicKeyToString(validatorIdentity.value[1])>>)),
                      [withAccount EXCEPT
                         !.status = "DELEGATED",
                         !.validatorIdentity =
                             Some(PublicKeyToString(validatorIdentity.value[1])),
                         !.rawData = Some(
                             [discriminator |-> Slice(info.data, 0, 8),
                              identityBytes |-> Slice(info.data, 8, 40)])])
               ELSE CheckDelegationReturn(
                      Logged(settled, ConsoleLog(
                         <<"U+274C",
                           " Account data found but could not extract valid validator identity">>)),
                      withAccount)

\* the copy of checkDelegation in the wallet component
\* (utils/src/DelegationChecker.tsx): it differs after the read, in
\* rentEpoch: pdaAccountInfo.rentEpoch ?? 0
\* the component's copy writes nothing to the console
ComponentCheckDelegationStart(accountPubkeyStr, rpcUrl) ==
  Only({ [call |-> [step.call EXCEPT !.console = <<>>],
          requests |-> step.requests] :
         step \in {CheckDelegationStart(accountPubkeyStr, rpcUrl)} })

ComponentCheckDelegationRejected(call, error) ==
  CheckDelegationThrow([call EXCEPT !.settled = Some(Throw(error))], error)

ComponentCheckDelegationResolved(call, pdaAccountInfo) ==
  LET result ==
        [accountPubkey |-> call.accountPubkeyStr,
         delegationPDA |-> PublicKeyToString(call.delegationPDA[1]),
         status |-> "NOT_DELEGATED",
         validatorIdentity |-> Absent, pdaAccount |-> Absent, rawData |-> Absent]
      settled == [call EXCEPT !.settled = Some(Return(pdaAccountInfo))]
  IN  IF NoDelegationAccount(pdaAccountInfo)
      THEN CheckDelegationReturn(settled, result)
      ELSE LET info == pdaAccountInfo[1]
               withAccount == [result EXCEPT !.pdaAccount = Some(
                   [lamports |-> info.lamports,
                    owner |-> PublicKeyToString(info.owner),
                    dataLength |-> Len(info.data),
                    executable |-> info.executable,
                    rentEpoch |-> IF info.rentEpoch = Absent THEN Some(0)
                                  ELSE info.rentEpoch])]
               validatorIdentity == extractDelegationIdentity(info.data)
           IN  IF validatorIdentity.threw
               THEN CheckDelegationThrow(settled, validatorIdentity.error)
               ELSE IF validatorIdentity.value # Absent
               THEN CheckDelegationReturn(settled, [withAccount EXCEPT
                      !.status = "DELEGATED",
                      !.validatorIdentity =
                          Some(PublicKeyToString(validatorIdentity.value[1])),
                      !.rawData = Some(
                          [discriminator |-> Slice(info.data, 0, 8),
                           identityBytes |-> Slice(info.data, 8, 40)])])
               ELSE CheckDelegationReturn(settled, withAccount)

\* mutant: a failed read is issued again
CheckDelegationRejected_Retries(call, error) ==
  [call |-> call,
   requests |-> <<[endpoint |-> call.connection[1].rpcEndpoint,
                   address |-> call.delegationPDA[1],
                   commitment |-> call.connection[1].commitment]>>]

CheckDelegationRejected(call, error) ==
  CheckDelegationCatch([call EXCEPT !.settled = Some(Throw(error))], error)

(***************************************************************************)
(* Inputs: what callers pass and what the network answers.                 *)
(***************************************************************************)
KeyStrings == {KeyAStr, KeyBStr, NotAKeyStr, ShortStr, <<>>, LongStr}

RpcUrls == {Undefined, <<>>, CustomUrl, BadUrl, NoHostUrl}

\* a stored record: discriminator byte d, identity, metadata byte m, cut to len
RecordData(d, identity, m, len) ==
  [i \in 1..len |-> IF i <= 8 THEN d
                    ELSE IF i <= 40 THEN identity[i - 8] ELSE m]

AccountInfo(lamports, data, owner, executable, rentEpoch) ==
  [lamports |-> lamports, data |-> data, owner |-> owner,
   executable |-> executable, rentEpoch |-> rentEpoch]

SystemProgramBytes == Repeat(0, 32)

AccountInfos ==
  { AccountInfo(1447680, RecordData(100, KeyABytes, 0, 96), ProgramBytes, FALSE, Some(361)),
    AccountInfo(1447680, RecordData(7, KeyABytes, 9, 96), SystemProgramBytes, TRUE, Absent),
    AccountInfo(1, RecordData(100, Repeat(0, 32), 0, 96), ProgramBytes, FALSE, Some(0)),
    AccountInfo(1, RecordData(100, Repeat(255, 32), 255, 96), ProgramBytes, FALSE, Absent),
    AccountInfo(0, RecordData(100, KeyABytes, 0, 96), ProgramBytes, FALSE, Some(361)),
    AccountInfo(0, <<>>, SystemProgramBytes, FALSE, Some(0)),
    AccountInfo(890880, <<>>, SystemProgramBytes, FALSE, Some(361)),
    AccountInfo(1447680, RecordData(100, KeyABytes, 0, 95), ProgramBytes, FALSE, Some(361)),
    AccountInfo(1447680, RecordData(100, KeyABytes, 0, 97), ProgramBytes, TRUE, Absent),
    AccountInfo(1, RecordData(100, KeyABytes, 0, 40), ProgramBytes, FALSE, Some(0)) }

\* getAccountInfo resolves with null or with the account
ReadAnswers == {Absent} \cup {Some(a) : a \in AccountInfos}

ReadErrors ==
  { TypeError(<<"fetch failed">>),
    Error(<<"failed to get info about account">>) }

(***************************************************************************)
(* checkMultipleDelegations: a loop that awaits checkDelegation for one    *)
(* key after the other.  CheckMultipleStart runs the function up to its    *)
(* first await; CheckMultipleNext resumes it when the awaited call has     *)
(* settled, and runs it to the next await or to its return.                *)
(***************************************************************************)
MaxBatchLen == 3

IdleBatch ==
  [pc |-> "idle", accountPubkeys |-> <<>>, rpcUrl |-> Undefined,
   results |-> <<>>, attempts |-> <<>>, error |-> Absent, console |-> <<>>]

\* mutant: the placeholder repeats the key as its address
PlaceholderResult_RepeatsKey(pubkey) ==
  [accountPubkey |-> pubkey, delegationPDA |-> pubkey,
   status |-> "NOT_DELEGATED",
   validatorIdentity |-> Absent, pdaAccount |-> Absent, rawData |-> Absent]

PlaceholderResult(pubkey) ==
  [accountPubkey |-> pubkey, delegationPDA |-> <<>>,
   status |-> "NOT_DELEGATED",
   validatorIdentity |-> Absent, pdaAccount |-> Absent, rawData |-> Absent]

\* mutant: a key that failed leaves no entry
CheckMultiplePush_DropsFailures(results, pubkey, settled) ==
  IF settled.pc = "returned" THEN Append(results, settled.result[1])
  ELSE results

\* the body of the loop once the awaited call has settled
CheckMultiplePush(results, pubkey, settled) ==
  IF settled.pc = "returned" THEN Append(results, settled.result[1])
  ELSE Append(results, PlaceholderResult(pubkey))

\* the loop from key number i on: return, or call checkDelegation and await
CheckMultipleLoop(b, i) ==
  IF i > Len(b.accountPubkeys)
  THEN [batch |-> [b EXCEPT !.pc = "returned"], call |-> IdleCall,
        requests |-> <<>>]
  ELSE LET step == CheckDelegationStart(b.accountPubkeys[i], b.rpcUrl)
       IN  [batch |-> [b EXCEPT !.pc = "awaitCheckDelegation"],
            call |-> step.call, requests |-> step.requests]

CheckMultipleStart(accountPubkeys, rpcUrl) ==
  CheckMultipleLoop(
     [IdleBatch EXCEPT
        !.accountPubkeys = accountPubkeys,
        !.rpcUrl = rpcUrl,
        !.console = <<ConsoleLog(<<"Checking delegation for ",
                                   Len(accountPubkeys), " accounts">>)>>], 1)

\* the console after the catch block of the loop printed a failure
CheckMultipleConsole(console, pubkey, settled) ==
  IF settled.pc = "threw"
  THEN Append(console, ConsoleError(<<"Failed to check delegation for ",
                                      pubkey, ":", settled.error[1]>>))
  ELSE console

\* mutant: without the try/catch a failed key ends the batch with its error
CheckMultipleNext_Aborts(b, settled) ==
  LET i == Len(b.results) + 1
      pushed == [b EXCEPT
        !.results = CheckMultiplePush(b.results, b.accountPubkeys[i], settled),
        !.attempts = Append(b.attempts, settled),
        !.console = CheckMultipleConsole(b.console, b.accountPubkeys[i], settled)]
  IN  IF settled.pc = "threw"
      THEN [batch |-> [b EXCEPT !.pc = "threw", !.error = settled.error,
                                !.attempts = Append(b.attempts, settled)],
            call |-> IdleCall, requests |-> <<>>]
      ELSE CheckMultipleLoop(pushed, i + 1)

\* mutant: a key whose read failed is tried again
CheckMultipleNext_RetriesFailedRead(b, settled) ==
  LET i == Len(b.attempts) + 1
      pushed == [b EXCEPT
        !.results = CheckMultiplePush(b.results, b.accountPubkeys[i], settled),
        !.attempts = Append(b.attempts, settled),
        !.console = CheckMultipleConsole(b.console, b.accountPubkeys[i], settled)]
  IN  IF settled.pc = "threw" /\ settled.settled # Absent
      THEN CheckMultipleLoop(b, i)
      ELSE CheckMultipleLoop(pushed, i + 1)

CheckMultipleNext(b, settled) ==
  LET i == Len(b.attempts) + 1
      pushed == [b EXCEPT
        !.results = CheckMultiplePush(b.results, b.accountPubkeys[i], settled),
        !.attempts = Append(b.attempts, settled),
        !.console = CheckMultipleConsole(b.console, b.accountPubkeys[i], settled)]
  IN  CheckMultipleLoop(pushed, i + 1)

BatchRpcUrls == {Undefined, BadUrl}

BatchKeyLists == UNION {[1..n -> {KeyAStr, KeyBStr, NotAKeyStr}] : n \in 0..MaxBatchLen}

BatchReadAnswers ==
  { Absent,
    Some(AccountInfo(1447680, RecordData(100, KeyABytes, 0, 96), ProgramBytes, FALSE, Some(361))) }

BatchReadErrors == { TypeError(<<"fetch failed">>) }

(***************************************************************************)
(* sendPingTransaction.  The function has four awaits: the blockhash       *)
(* fetch, the signer, the submit and the confirmation.  Each operator      *)
(* below is the code between two awaits; it yields the invocation's new    *)
(* state and the requests it made of the network or the signer.            *)
(***************************************************************************)
IdlePing ==
  [pc |-> "idle", connection |-> Absent, fromPubkey |-> Absent,
   toPubkey |-> Absent, transaction |-> Absent, blockhash |-> Absent,
   lastValidBlockHeight |-> Absent, signedTransaction |-> Absent,
   signature |-> Absent, answers |-> <<>>, result |-> Absent,
   error |-> Absent]

\* SystemProgram.transfer({fromPubkey, toPubkey, lamports})
SystemTransfer(fromPubkey, toPubkey, lamports) ==
  [programId |-> SystemProgramBytes, instruction |-> "Transfer",
   fromPubkey |-> fromPubkey, toPubkey |-> toPubkey, lamports |-> lamports]

\* new Transaction().add(instruction)
NewTransaction(instruction) ==
  [instructions |-> <<instruction>>, recentBlockhash |-> Absent,
   lastValidBlockHeight |-> Absent, feePayer |-> Absent,
   signatures |-> <<>>]

\* Transaction.compileMessage(): the fee payer, set or else the key of the
\* first signature, and the accounts in the order of the message, the fee
\* payer first, then the other signers, then the rest
CompileMessage(transaction) ==
  LET instructions == transaction.instructions
      \* the accounts an instruction names: SystemProgram.transfer names
      \* the sender, a writable signer, and the recipient, writable
      InstructionKeys(instruction) ==
        <<[pubkey |-> instruction.fromPubkey, isSigner |-> TRUE,
           isWritable |-> TRUE],
          [pubkey |-> instruction.toPubkey, isSigner |-> FALSE,
           isWritable |-> TRUE]>>
      \* findIndex of a key among account metas: its place, or 0
      MetaIndex(metas, pubkey) ==
        LET at == {i \in 1..Len(metas) : metas[i].pubkey = pubkey}
        IN  IF at = {} THEN 0 ELSE CHOOSE i \in at : \A j \in at : i <= j
      \* duplicate account metas are merged into the first of them
      RECURSIVE UniqueMetas(_, _)
      UniqueMetas(metas, unique) ==
        IF metas = <<>> THEN unique
        ELSE LET meta == metas[1]
                 at == MetaIndex(unique, meta.pubkey)
             IN  UniqueMetas(Tail(metas),
                    IF at = 0 THEN Append(unique, meta)
                    ELSE [unique EXCEPT
                            ![at].isWritable = @ \/ meta.isWritable,
                            ![at].isSigner = @ \/ meta.isSigner])
      \* x.localeCompare(y, 'en', ...) < 0 for base58 texts: digits sort
      \* before letters and letters by the alphabet whatever their case;
      \* texts equal that far sort by the first difference of case, lower
      \* case first
      LocaleBefore(x, y) ==
        LET DecimalDigits ==
              <<"0", "1", "2", "3", "4", "5", "6", "7", "8", "9">>
            LowerLetters ==
              <<"a", "b", "c", "d", "e", "f", "g", "h", "i", "j", "k", "l",
                "m", "n", "o", "p", "q", "r", "s", "t", "u", "v", "w", "x",
                "y", "z">>
            UpperLetters ==
              <<"A", "B", "C", "D", "E", "F", "G", "H", "I", "J", "K", "L",
                "M", "N", "O", "P", "Q", "R", "S", "T", "U", "V", "W", "X",
                "Y", "Z">>
            IsUpper(c) == \E i \in 1..26 : UpperLetters[i] = c
            Primary(c) ==
              IF \E d \in 1..10 : DecimalDigits[d] = c
              THEN CHOOSE d \in 1..10 : DecimalDigits[d] = c
              ELSE 10 + (CHOOSE i \in 1..26 :
                           LowerLetters[i] = c \/ UpperLetters[i] = c)
            shared == IF Len(x) < Len(y) THEN Len(x) ELSE Len(y)
            differ == {i \in 1..shared : Primary(x[i]) # Primary(y[i])}
            cases == {i \in 1..shared : IsUpper(x[i]) # IsUpper(y[i])}
            First(places) == CHOOSE i \in places : \A j \in places : i <= j
        IN  IF differ # {}
            THEN Primary(x[First(differ)]) < Primary(y[First(differ)])
            ELSE IF Len(x) # Len(y) THEN Len(x) < Len(y)
            ELSE cases # {} /\ IsUpper(y[First(cases)])
      \* the comparison of uniqueMetas.sort: signers first, then writable
      \* accounts, then by the text of the key
      MetaBefore(x, y) ==
        IF x.isSigner # y.isSigner THEN x.isSigner
        ELSE IF x.isWritable # y.isWritable THEN x.isWritable
        ELSE LocaleBefore(PublicKeyToString(x.pubkey),
                          PublicKeyToString(y.pubkey))
      RECURSIVE SortMetas(_)
      SortMetas(metas) ==
        IF metas = <<>> THEN <<>>
        ELSE LET Placed(sorted, ahead) ==
                   SubSeq(sorted, 1, ahead) \o <<metas[1]>>
                     \o SubSeq(sorted, ahead + 1, Len(sorted))
             IN  Only({ Only({ Placed(sorted, ahead) :
                               ahead \in {Cardinality(
                                  {i \in 1..Len(sorted) :
                                     MetaBefore(sorted[i], metas[1])})} }) :
                        sorted \in {SortMetas(Tail(metas))} })
      \* every signature must be of an account of the transaction, which
      \* it makes a signer
      RECURSIVE MarkSigners(_, _)
      MarkSigners(metas, signatures) ==
        IF signatures = <<>> THEN Return(metas)
        ELSE LET at == MetaIndex(metas, signatures[1].publicKey)
             IN  IF at = 0
                 THEN Throw(Error(<<"unknown signer: ">>
                              \o PublicKeyToString(signatures[1].publicKey)))
                 ELSE MarkSigners([metas EXCEPT ![at].isSigner = TRUE],
                                  Tail(signatures))
      RECURSIVE Keys(_)
      Keys(n) == IF n = 0 THEN <<>>
                 ELSE Keys(n - 1) \o InstructionKeys(instructions[n])
      RECURSIVE ProgramIds(_)
      ProgramIds(n) ==
        IF n = 0 THEN <<>>
        ELSE IF \E i \in 1..(n - 1) :
                  instructions[i].programId = instructions[n].programId
        THEN ProgramIds(n - 1)
        ELSE Append(ProgramIds(n - 1),
                    [pubkey |-> instructions[n].programId,
                     isSigner |-> FALSE, isWritable |-> FALSE])
      accountMetas == Keys(Len(instructions)) \o ProgramIds(Len(instructions))
      feePayer == IF transaction.feePayer # Absent THEN transaction.feePayer[1]
                  ELSE transaction.signatures[1].publicKey
      payerMeta == [pubkey |-> feePayer, isSigner |-> TRUE, isWritable |-> TRUE]
      PayerFirst(sorted, payerIndex) ==
        IF payerIndex = 0 THEN <<payerMeta>> \o sorted
        ELSE <<payerMeta>> \o SubSeq(sorted, 1, payerIndex - 1)
               \o SubSeq(sorted, payerIndex + 1, Len(sorted))
      IsSigner(meta) == meta.isSigner
      IsNoSigner(meta) == ~meta.isSigner
      Pubkeys(metas) == [i \in 1..Len(metas) |-> metas[i].pubkey]
      Compiled(marked) ==
        IF marked.threw THEN marked
        ELSE Return(
               [feePayer |-> feePayer,
                numRequiredSignatures |->
                   Len(SelectSeq(marked.value, IsSigner)),
                accountKeys |->
                   Pubkeys(SelectSeq(marked.value, IsSigner))
                     \o Pubkeys(SelectSeq(marked.value, IsNoSigner)),
                recentBlockhash |-> transaction.recentBlockhash[1],
                instructions |-> instructions])
  IN  IF transaction.recentBlockhash = Absent
      THEN Throw(Error(<<"Transaction recentBlockhash required">>))
      ELSE IF transaction.feePayer = Absent /\ transaction.signatures = <<>>
      THEN Throw(Error(<<"Transaction fee payer required">>))
      ELSE Only({ Only({ Only({ Compiled(marked) :
                  marked \in {MarkSigners(payerFirst,
                                          transaction.signatures)} }) :
                payerFirst \in {PayerFirst(sorted,
                                           MetaIndex(sorted, feePayer))} }) :
             sorted \in {SortMetas(UniqueMetas(accountMetas, <<>>))} })

\* Transaction.serialize(): the message is compiled; signatures that are
\* not, one for one and in order, those of the signers of the message are
\* replaced by empty ones; then every signature is verified, and the wire
\* form is the signatures and the message
Serialize(transaction) ==
  LET \* nacl verification of a signature: the signer's "signed" stands for
      \* a signature of the message made with the key beside it
      VerifiesSignature(signature) == signature = "signed"
      \* the text of a list of keys in an error message
      KeyList(pubkeys) ==
        LET RECURSIVE Joined(_)
            Joined(n) ==
              IF n = 1 THEN PublicKeyToString(pubkeys[1])
              ELSE Joined(n - 1) \o <<"U+0060", ", ", "U+0060">>
                     \o PublicKeyToString(pubkeys[n])
        IN  <<"U+0060">> \o Joined(Len(pubkeys)) \o <<"U+0060">>
      \* the signatures _compile leaves on the transaction
      Compile(message) ==
        LET signedKeys == SubSeq(message.accountKeys, 1,
                                 message.numRequiredSignatures)
            given == [i \in 1..Len(transaction.signatures) |->
                        transaction.signatures[i].publicKey]
        IN  IF given = signedKeys THEN transaction.signatures
            ELSE [i \in 1..Len(signedKeys) |->
                    [publicKey |-> signedKeys[i], signature |-> Absent]]
      Verified(message, signatures) ==
        LET IsMissing(pair) == pair.signature = Absent
            IsInvalid(pair) == /\ pair.signature # Absent
                               /\ ~VerifiesSignature(pair.signature[1])
            Keys(pairs) == [i \in 1..Len(pairs) |-> pairs[i].publicKey]
            missing == Keys(SelectSeq(signatures, IsMissing))
            invalid == Keys(SelectSeq(signatures, IsInvalid))
            Listed(what, pubkeys) ==
              IF pubkeys = <<>> THEN <<>>
              ELSE <<"\n", what, " signature for public key">>
                     \o (IF Len(pubkeys) = 1 THEN <<>> ELSE <<"(s)">>)
                     \o <<" [">> \o KeyList(pubkeys) \o <<"].">>
        IN  IF missing = <<>> /\ invalid = <<>>
            THEN Return([feePayer |-> message.feePayer,
                         recentBlockhash |-> message.recentBlockhash,
                         accountKeys |-> message.accountKeys,
                         instructions |-> message.instructions,
                         signatures |-> signatures])
            ELSE Throw(Error(<<"Signature verification failed.">>
                             \o Listed("Invalid", invalid)
                             \o Listed("Missing", missing)))
  IN  Only({ IF message.threw THEN message
             ELSE Only({ Verified(message.value, signatures) :
                         signatures \in {Compile(message.value)} }) :
             message \in {CompileMessage(transaction)} })

\* an await has settled: kept as the invocation's history
Answered(p, op, settlement) ==
  [p EXCEPT !.answers = Append(p.answers, [op |-> op, threw |-> settlement.threw,
                                           value |-> settlement.value,
                                           error |-> settlement.error])]

\* the catch block: one error that wraps the message of the cause
SendPingCatch(p, error) ==
  [ping |-> [p EXCEPT
       !.pc = "threw",
       !.error = Some(Error(<<"Failed to send ping transaction: ">>
                            \o ErrorMessage(error)))],
   requests |-> <<>>]

SendPingStart(connection, fromPubkey, toPubkey) ==
  LET transaction == NewTransaction(SystemTransfer(fromPubkey, toPubkey, 0))
  IN  [ping |-> [IdlePing EXCEPT
            !.pc = "awaitGetLatestBlockhash",
            !.connection = Some(connection),
            !.fromPubkey = Some(fromPubkey),
            !.toPubkey = Some(toPubkey),
            !.transaction = Some(transaction)],
       requests |-> <<[op |-> "getLatestBlockhash",
                       endpoint |-> connection.rpcEndpoint]>>]

\* mutant: the recipient is made the fee payer
SendPingBlockhashResolved_RecipientPays(p, latest) ==
  LET transaction == [p.transaction[1] EXCEPT
                        !.recentBlockhash = Some(latest.blockhash),
                        !.feePayer = p.toPubkey]
  IN  [ping |-> [Answered(p, "getLatestBlockhash", Return(latest)) EXCEPT
            !.pc = "awaitSignTransaction",
            !.blockhash = Some(latest.blockhash),
            !.lastValidBlockHeight = Some(latest.lastValidBlockHeight),
            !.transaction = Some(transaction)],
       requests |-> <<[op |-> "signTransaction", transaction |-> transaction]>>]

\* getLatestBlockhash resolved: stamp the transaction and ask the signer
SendPingBlockhashResolved(p, latest) ==
  LET transaction == [p.transaction[1] EXCEPT
                        !.recentBlockhash = Some(latest.blockhash),
                        !.feePayer = p.fromPubkey]
  IN  [ping |-> [Answered(p, "getLatestBlockhash", Return(latest)) EXCEPT
            !.pc = "awaitSignTransaction",
            !.blockhash = Some(latest.blockhash),
            !.lastValidBlockHeight = Some(latest.lastValidBlockHeight),
            !.transaction = Some(transaction)],
       requests |-> <<[op |-> "signTransaction", transaction |-> transaction]>>]

\* the signer resolved: serialize and submit
SendPingSigned(p, signedTransaction) ==
  LET settled == [Answered(p, "signTransaction", Return(signedTransaction))
                    EXCEPT !.signedTransaction = Some(signedTransaction)]
  IN  Only({ IF wireTransaction.threw
             THEN SendPingCatch(settled, wireTransaction.error)
             ELSE [ping |-> [settled EXCEPT !.pc = "awaitSendRawTransaction"],
                   requests |-> <<[op |-> "sendRawTransaction",
                                   endpoint |-> p.connection[1].rpcEndpoint,
                                   rawTransaction |-> wireTransaction.value]>>] :
             wireTransaction \in {Serialize(signedTransaction)} })

\* mutant: the confirmation is asked for a validity window counted anew
SendPingSubmitted_ConfirmsOther(p, signature) ==
  [ping |-> [Answered(p, "sendRawTransaction", Return(signature)) EXCEPT
       !.pc = "awaitConfirmTransaction",
       !.signature = Some(signature)],
   requests |-> <<[op |-> "confirmTransaction",
                   endpoint |-> p.connection[1].rpcEndpoint,
                   signature |-> signature,
                   blockhash |-> p.blockhash[1],
                   lastValidBlockHeight |-> p.lastValidBlockHeight[1] + 150]>>]

\* sendRawTransaction resolved: wait for the confirmation
SendPingSubmitted(p, signature) ==
  [ping |-> [Answered(p, "sendRawTransaction", Return(signature)) EXCEPT
       !.pc = "awaitConfirmTransaction",
       !.signature = Some(signature)],
   requests |-> <<[op |-> "confirmTransaction",
                   endpoint |-> p.connection[1].rpcEndpoint,
                   signature |-> signature,
                   blockhash |-> p.blockhash[1],
                   lastValidBlockHeight |-> p.lastValidBlockHeight[1]]>>]

\* confirmTransaction resolved, with {value: {err}}: the value is not read
SendPingConfirmed(p, response) ==
  [ping |-> [Answered(p, "confirmTransaction", Return(response)) EXCEPT
       !.pc = "returned",
       !.result = p.signature],
   requests |-> <<>>]

\* mutant: a refused signing is answered by submitting the transaction as is
SendPingRejected_SubmitsUnsigned(p, op, error) ==
  IF op = "signTransaction"
  THEN [ping |-> [Answered(p, op, Throw(error)) EXCEPT
              !.pc = "awaitSendRawTransaction"],
        requests |-> <<[op |-> "sendRawTransaction",
                        endpoint |-> p.connection[1].rpcEndpoint,
                        rawTransaction |-> p.transaction[1]]>>]
  ELSE SendPingCatch(Answered(p, op, Throw(error)), error)

\* mutant: a refused signing is asked for again
SendPingRejected_AsksAgain(p, op, error) ==
  IF op = "signTransaction"
  THEN [ping |-> Answered(p, op, Throw(error)),
        requests |-> <<[op |-> "signTransaction",
                        transaction |-> p.transaction[1]]>>]
  ELSE SendPingCatch(Answered(p, op, Throw(error)), error)

\* mutant: an expired blockhash is answered by fetching a new one
SendPingRejected_RefetchesBlockhash(p, op, error) ==
  IF op = "confirmTransaction"
  THEN [ping |-> [Answered(p, op, Throw(error)) EXCEPT
              !.pc = "awaitGetLatestBlockhash"],
        requests |-> <<[op |-> "getLatestBlockhash",
                        endpoint |-> p.connection[1].rpcEndpoint]>>]
  ELSE SendPingCatch(Answered(p, op, Throw(error)), error)

\* the awaited call `op` rejected
SendPingRejected(p, op, error) ==
  SendPingCatch(Answered(p, op, Throw(error)), error)

PingConnections ==
  { NewConnection(DEFAULT_RPC_URL, "confirmed").value }

PingKeys == {KeyABytes, ProgramBytes}

\* blockhashes are base-58 text
LatestBlockhashes ==
  [blockhash : {AllOnesStr, PdaBStr},
   lastValidBlockHeight : {281474976, 281475126}]

\* what the signer may hand back for a transaction: it signed for the fee
\* payer, or it left the signature slot empty
SignerResults(transaction) ==
  { [transaction EXCEPT !.signatures =
        <<[publicKey |-> transaction.feePayer[1], signature |-> Some("signed")]>>],
    [transaction EXCEPT !.signatures =
        <<[publicKey |-> transaction.feePayer[1], signature |-> Absent]>>] }

\* the signer is an external callback: it may reject with an error of its
\* own, with a value that is no Error, or with the failure of a request it
\* made itself
SignerErrors ==
  { Error(<<"User rejected the request.">>),
    NonError(<<"rejected">>),
    TypeError(<<"fetch failed">>) }

TransactionSignatures == {<<"5", "V", "E", "R">>, <<"2", "j", "g", "X">>}

SubmitErrors ==
  { Error(<<"failed to send transaction: Transaction simulation failed">>),
    TypeError(<<"fetch failed">>) }

\* {value: {err}}: err is null, or the error of a transaction that failed
ConfirmResponses ==
  { [err |-> Absent], [err |-> Some("InstructionError")] }

ConfirmErrors ==
  { Error(<<"Signature has expired: block height exceeded.">>),
    TypeError(<<"fetch failed">>) }

BlockhashErrors == { TypeError(<<"fetch failed">>) }

(***************************************************************************)
(* State.                                                                  *)
(***************************************************************************)
VARIABLES
  call,    \* the invocation of checkDelegation in progress
  reads,   \* every getAccountInfo request put on the network, in order
  batch,   \* the invocation of checkMultipleDelegations
  ping,    \* the invocation of sendPingTransaction
  wire,    \* every request sendPingTransaction made of the network or signer
  decoding, \* a direct application of extractDelegationIdentity
  deriving, \* a direct application of findProgramAddressSync
  otherCall, \* an invocation of checkDelegation made while others run
  process, \* the Node.js process that has loaded check_delegation.ts
  ui       \* the state of the DelegationCheckerInner component

vars ==
  <<call, reads, batch, ping, wire, decoding, deriving, otherCall, process,
    ui>>

\* a direct caller invokes checkDelegation
CheckDelegationCall(accountPubkeyStr, rpcUrl) ==
  /\ call.pc = "idle"
  /\ batch.pc = "idle"
  /\ LET step == CheckDelegationStart(accountPubkeyStr, rpcUrl)
     IN  /\ call' = step.call
         /\ reads' = reads \o step.requests
  /\ UNCHANGED <<batch, ping, wire, decoding, deriving, otherCall, process, ui>>

GetAccountInfoResolves(pdaAccountInfo) ==
  /\ call.pc = "awaitGetAccountInfo"
  /\ LET step == CheckDelegationResolved(call, pdaAccountInfo)
     IN  /\ call' = step.call
         /\ reads' = reads \o step.requests
  /\ UNCHANGED <<batch, ping, wire, decoding, deriving, otherCall, process, ui>>

GetAccountInfoRejects(error) ==
  /\ call.pc = "awaitGetAccountInfo"
  /\ LET step == CheckDelegationRejected(call, error)
     IN  /\ call' = step.call
         /\ reads' = reads \o step.requests
  /\ UNCHANGED <<batch, ping, wire, decoding, deriving, otherCall, process, ui>>

IdleDecoding == [pc |-> "idle", data |-> <<>>, result |-> Absent]

\* assumed: the bumps whose candidates are taken to be off the curve, or
\* Absent when the digests are those of SHA-256
IdleDeriving ==
  [pc |-> "idle", accountPubkey |-> <<>>, assumed |-> Absent, nonce |-> 255,
   result |-> Absent]

\* the component as mounted: the useState initial values, no wallet; the
\* last four fields count the calls the component started and has not yet
\* seen settle
InitialUi ==
  [formState |-> [accountPubkey |-> KeyAStr, rpcUrl |-> <<>>],
   loading |-> FALSE, result |-> Absent, error |-> Absent,
   pingLoading |-> FALSE, pingResult |-> Absent, pingError |-> Absent,
   connected |-> FALSE, publicKey |-> Absent, signTransaction |-> FALSE,
   checksStarted |-> 0, checksOutstanding |-> 0,
   pingsStarted |-> 0, pingsOutstanding |-> 0]

\* a process that has not loaded the file: entry tells whether the file is
\* the program that is run or a module the program imports, args is
\* process.argv.slice(2), env is process.env.SOLANA_RPC_URL
IdleProcess ==
  [entry |-> "program", args |-> <<>>, env |-> Absent, loaded |-> FALSE,
   pending |-> FALSE, stdout |-> <<>>, stderr |-> <<>>, exitCode |-> Absent]

Init ==
  /\ call = IdleCall
  /\ reads = <<>>
  /\ batch = IdleBatch
  /\ ping = IdlePing
  /\ wire = <<>>
  /\ decoding = IdleDecoding
  /\ deriving = IdleDeriving
  /\ otherCall = IdleCall
  /\ process = IdleProcess
  /\ ui = InitialUi

Next ==
  \/ \E k \in KeyStrings, u \in RpcUrls : CheckDelegationCall(k, u)
  \/ \E a \in ReadAnswers : GetAccountInfoResolves(a)
  \/ \E e \in ReadErrors : GetAccountInfoRejects(e)

Spec == Init /\ [][Next]_vars

\* a caller invokes checkMultipleDelegations
CheckMultipleCall(accountPubkeys, rpcUrl) ==
  /\ batch.pc = "idle"
  /\ call.pc = "idle"
  /\ LET step == CheckMultipleStart(accountPubkeys, rpcUrl)
     IN  /\ batch' = step.batch
         /\ call' = step.call
         /\ reads' = reads \o step.requests
  /\ UNCHANGED <<ping, wire, decoding, deriving, otherCall, process, ui>>

\* the awaited checkDelegation has settled: the loop goes on
CheckMultipleResume ==
  /\ batch.pc = "awaitCheckDelegation"
  /\ call.pc \in {"returned", "threw"}
  /\ LET step == CheckMultipleNext(batch, call)
     IN  /\ batch' = step.batch
         /\ call' = step.call
         /\ reads' = reads \o step.requests
  /\ UNCHANGED <<ping, wire, decoding, deriving, otherCall, process, ui>>

NextBatch ==
  \/ \E ks \in BatchKeyLists, u \in BatchRpcUrls : CheckMultipleCall(ks, u)
  \/ \E a \in BatchReadAnswers : GetAccountInfoResolves(a)
  \/ \E e \in BatchReadErrors : GetAccountInfoRejects(e)
  \/ CheckMultipleResume

SpecBatch == Init /\ [][NextBatch]_vars

\* one step of sendPingTransaction, from the operator that models it
PingStep(step) ==
  /\ ping' = step.ping
  /\ wire' = wire \o step.requests
  /\ UNCHANGED <<call, reads, batch, decoding, deriving, otherCall, process, ui>>

SendPingCall(connection, fromPubkey, toPubkey) ==
  /\ ping.pc = "idle"
  /\ PingStep(SendPingStart(connection, fromPubkey, toPubkey))

GetLatestBlockhashResolves(latest) ==
  /\ ping.pc = "awaitGetLatestBlockhash"
  /\ PingStep(SendPingBlockhashResolved(ping, latest))

GetLatestBlockhashRejects(error) ==
  /\ ping.pc = "awaitGetLatestBlockhash"
  /\ PingStep(SendPingRejected(ping, "getLatestBlockhash", error))

SignTransactionResolves ==
  /\ ping.pc = "awaitSignTransaction"
  /\ \E signed \in SignerResults(ping.transaction[1]) :
        PingStep(SendPingSigned(ping, signed))

SignTransactionRejects(error) ==
  /\ ping.pc = "awaitSignTransaction"
  /\ PingStep(SendPingRejected(ping, "signTransaction", error))

SendRawTransactionResolves(signature) ==
  /\ ping.pc = "awaitSendRawTransaction"
  /\ PingStep(SendPingSubmitted(ping, signature))

SendRawTransactionRejects(error) ==
  /\ ping.pc = "awaitSendRawTransaction"
  /\ PingStep(SendPingRejected(ping, "sendRawTransaction", error))

ConfirmTransactionResolves(response) ==
  /\ ping.pc = "awaitConfirmTransaction"
  /\ PingStep(SendPingConfirmed(ping, response))

ConfirmTransactionRejects(error) ==
  /\ ping.pc = "awaitConfirmTransaction"
  /\ PingStep(SendPingRejected(ping, "confirmTransaction", error))

NextPing ==
  \/ \E c \in PingConnections, f \in PingKeys, t \in PingKeys :
        SendPingCall(c, f, t)
  \/ \E b \in LatestBlockhashes : GetLatestBlockhashResolves(b)
  \/ \E e \in BlockhashErrors : GetLatestBlockhashRejects(e)
  \/ SignTransactionResolves
  \/ \E e \in SignerErrors : SignTransactionRejects(e)
  \/ \E g \in TransactionSignatures : SendRawTransactionResolves(g)
  \/ \E e \in SubmitErrors : SendRawTransactionRejects(e)
  \/ \E r \in ConfirmResponses : ConfirmTransactionResolves(r)
  \/ \E e \in ConfirmErrors : ConfirmTransactionRejects(e)

SpecPing == Init /\ [][NextPing]_vars

\* account data handed to extractDelegationIdentity: records of 96 bytes
\* and of other lengths, with varied discriminator, identity and tail
DecodeInputs ==
  LET DecodeFills == {0, 100, 255}
      DecodeIdentities ==
        {KeyABytes, Repeat(0, 32), Repeat(255, 32), ProgramBytes, DigestA255,
         [i \in 1..32 |-> i]}
      DecodeLengths == {0, 8, 39, 40, 95, 96, 97, 1000}
  IN  { RecordData(d, identity, m, len) :
          d \in DecodeFills, identity \in DecodeIdentities,
          m \in DecodeFills, len \in DecodeLengths }

\* extractDelegationIdentity(data) is applied
ExtractDelegationIdentityCall(data) ==
  /\ decoding.pc = "idle"
  /\ decoding' =
       Only({ [pc |-> IF r.threw THEN "threw" ELSE "returned",
               data |-> data, result |-> Some(r)] :
              r \in {extractDelegationIdentity(data)} })
  /\ UNCHANGED <<call, reads, batch, ping, wire, otherCall, process, ui, deriving>>

NextDecode == \E data \in DecodeInputs : ExtractDelegationIdentityCall(data)

SpecDecode == Init /\ [][NextDecode]_vars

(***************************************************************************)
(* check_delegation.ts loaded by Node.js.  The statements at the end of    *)
(* the file run whenever the file is loaded: they read process.argv, and   *)
(* either exit or call checkDelegation and report what it settles with.    *)
(***************************************************************************)
MainnetUrl ==
  <<"h", "t", "t", "p", "s", ":", "/", "/", "a", "p", "i", ".", "m", "a", "i",
    "n", "n", "e", "t", "-", "b", "e", "t", "a", ".", "s", "o", "l", "a", "n",
    "a", ".", "c", "o", "m">>

ProcessEntries == {"program", "module"}

ProcessArgs == {<<>>, <<KeyAStr>>, <<KeyAStr, CustomUrl>>, <<NotAKeyStr>>}

ProcessEnvs == {Absent, Some(MainnetUrl)}

InitNode ==
  /\ call = IdleCall
  /\ reads = <<>>
  /\ batch = IdleBatch
  /\ ping = IdlePing
  /\ wire = <<>>
  /\ decoding = IdleDecoding
  /\ deriving = IdleDeriving
  /\ otherCall = IdleCall
  /\ ui = InitialUi
  /\ \E entry \in ProcessEntries, args \in ProcessArgs, env \in ProcessEnvs :
        process = [IdleProcess EXCEPT !.entry = entry, !.args = args,
                                      !.env = env]

\* the process after the lines of a console went to its streams
ProcessWrites(p, console) ==
  [p EXCEPT !.stdout = @ \o Written(console, "stdout"),
            !.stderr = @ \o Written(console, "stderr")]

\* JSON.stringify(result, null, 2): the members in the order they were
\* set, without those that are undefined
JsonStringify(result) ==
  LET Member(key, value) ==
        IF value = Absent THEN <<>> ELSE << <<key, value[1]>> >>
      Account(account) ==
        << <<"lamports", account.lamports>>, <<"owner", account.owner>>,
           <<"dataLength", account.dataLength>>,
           <<"executable", account.executable>> >>
          \o Member("rentEpoch", account.rentEpoch)
      RawData(rawData) ==
        << <<"discriminator", rawData.discriminator>>,
           <<"identityBytes", rawData.identityBytes>> >>
  IN  << <<"accountPubkey", result.accountPubkey>>,
         <<"delegationPDA", result.delegationPDA>>,
         <<"status", result.status>> >>
        \o (IF result.pdaAccount = Absent THEN <<>>
            ELSE << <<"pdaAccount", Account(result.pdaAccount[1])>> >>)
        \o Member("validatorIdentity", result.validatorIdentity)
        \o (IF result.rawData = Absent THEN <<>>
            ELSE << <<"rawData", RawData(result.rawData[1])>> >>)

\* the file is loaded: the statements at lines 134-163 run
ModuleLoad ==
  /\ ~process.loaded
  /\ process.exitCode = Absent
  /\ IF Len(process.args) = 0
     THEN /\ process' = [process EXCEPT
                 !.loaded = TRUE,
                 !.stdout = @ \o
                    << <<"Usage: npx ts-node check_delegation.ts <pubkey> [rpc_url]">>,
                       <<"Example: npx ts-node check_delegation.ts 9WzDXwBbmkg8ZTbNMqUxvQRAyrZzDsGYdLVL9zYtAWWM">> >>,
                 !.exitCode = Some(1)]
          /\ UNCHANGED <<call, reads, deriving>>
     ELSE \E step \in {CheckDelegationStart(
                          process.args[1],
                          IF Len(process.args) >= 2 THEN process.args[2]
                          ELSE Undefined)} :
             /\ call' = step.call
             /\ reads' = reads \o step.requests
             /\ process' = ProcessWrites(
                   [process EXCEPT !.loaded = TRUE, !.pending = TRUE],
                   step.call.console)
  /\ UNCHANGED <<batch, ping, wire, decoding, deriving, otherCall, ui>>

\* the CLI's checkDelegation is resumed by its read: what it prints goes to
\* the streams of the process
CliCheckDelegationResumed(step) ==
  /\ call' = step.call
  /\ reads' = reads \o step.requests
  /\ process' = ProcessWrites(
        process,
        SubSeq(step.call.console, Len(call.console) + 1,
               Len(step.call.console)))
  /\ UNCHANGED <<batch, ping, wire, decoding, deriving, otherCall, ui>>

CliGetAccountInfoResolves(pdaAccountInfo) ==
  /\ process.pending
  /\ call.pc = "awaitGetAccountInfo"
  /\ \E step \in {CheckDelegationResolved(call, pdaAccountInfo)} :
        CliCheckDelegationResumed(step)

CliGetAccountInfoRejects(error) ==
  /\ process.pending
  /\ call.pc = "awaitGetAccountInfo"
  /\ \E step \in {CheckDelegationRejected(call, error)} :
        CliCheckDelegationResumed(step)

\* the then handler: the result is printed
CliThen ==
  /\ process.pending
  /\ call.pc = "returned"
  /\ process' = [process EXCEPT
        !.pending = FALSE,
        !.stdout = @
           \o << <<"\n=== DELEGATION CHECK RESULT ===">>,
                 JsonStringify(call.result[1]) >>
           \o (IF call.result[1].status = "DELEGATED"
               THEN << <<"\n", "U+1F3AF", " Magic Router API Usage:">>,
                       <<"curl -X POST \"https://api.magicrouter.com/getAccountInfo\" \\">>,
                       <<"  -H \"Content-Type: application/json\" \\">>,
                       <<"  -d '{\"pubkey\": \"",
                         call.result[1].accountPubkey, "\"}'">> >>
               ELSE <<>>)]
  /\ UNCHANGED <<call, reads, batch, ping, wire, decoding, deriving, otherCall, ui>>

\* the catch handler: the message is printed and the process exits
CliCatch ==
  /\ process.pending
  /\ call.pc = "threw"
  /\ process' = [process EXCEPT
        !.pending = FALSE,
        !.stderr = Append(@, <<"Error:", call.error[1].message>>),
        !.exitCode = Some(1)]
  /\ UNCHANGED <<call, reads, batch, ping, wire, decoding, deriving, otherCall, ui>>

NextNode ==
  \/ ModuleLoad
  \/ \E a \in ReadAnswers : CliGetAccountInfoResolves(a)
  \/ \E e \in ReadErrors : CliGetAccountInfoRejects(e)
  \/ CliThen
  \/ CliCatch

SpecNode == InitNode /\ [][NextNode]_vars

(***************************************************************************)
(* The bump search applied on its own, to the keys of the model under      *)
(* SHA-256 and to one key under digests that are assumed.                  *)
(***************************************************************************)
\* PublicKey.findProgramAddressSync(seeds, programId) is applied: the nonce
\* begins at 255
FindProgramAddressCall(accountPubkey, assumed) ==
  /\ deriving.pc = "idle"
  /\ deriving' = [pc |-> "searching", accountPubkey |-> accountPubkey,
                  assumed |-> assumed, nonce |-> 255, result |-> Absent]
  /\ UNCHANGED <<call, reads, batch, ping, wire, decoding, otherCall, process, ui>>

\* the loop makes one pass
FindProgramAddressNext ==
  /\ deriving.pc = "searching"
  /\ \E pass \in {FindProgramAddressPass(
                    <<SeedDelegation, deriving.accountPubkey>>, ProgramBytes,
                    deriving.nonce,
                    IF deriving.assumed = Absent THEN Sha256
                    ELSE DigestsOffCurveAt(deriving.assumed[1]))} :
        deriving' =
          IF pass.done
          THEN [deriving EXCEPT
                  !.pc = IF pass.outcome.threw THEN "threw" ELSE "returned",
                  !.nonce = pass.nonce,
                  !.result = Some(pass.outcome)]
          ELSE [deriving EXCEPT !.nonce = pass.nonce]
  /\ UNCHANGED <<call, reads, batch, ping, wire, decoding, otherCall, process, ui>>

\* the search is applied to the keys of the model under SHA-256, and to one
\* key with the bumps taken to be off the curve being none, one alone,
\* two, or all up to one
NextDerive ==
  \/ \E k \in {KeyABytes, Repeat(0, 32)} : FindProgramAddressCall(k, Absent)
  \/ \E bumps \in {{}, {0}, {1}, {2, 200}, {255}, 0..1, 0..128, 0..254,
                    0..255} :
        FindProgramAddressCall(KeyABytes, Some(bumps))
  \/ FindProgramAddressNext

SpecDerive == Init /\ [][NextDerive]_vars

(***************************************************************************)
(* Interleaved invocations: a checkDelegation call of its own, started and *)
(* settled at any time while a batch and a ping are in progress.           *)
(***************************************************************************)
OtherCheckDelegationCall(accountPubkeyStr, rpcUrl) ==
  /\ otherCall.pc = "idle"
  /\ \E step \in {CheckDelegationStart(accountPubkeyStr, rpcUrl)} :
        /\ otherCall' = step.call
        /\ reads' = reads \o step.requests
  /\ UNCHANGED <<call, batch, ping, wire, decoding, deriving, process, ui>>

OtherGetAccountInfoResolves(pdaAccountInfo) ==
  /\ otherCall.pc = "awaitGetAccountInfo"
  /\ \E step \in {CheckDelegationResolved(otherCall, pdaAccountInfo)} :
        /\ otherCall' = step.call
        /\ reads' = reads \o step.requests
  /\ UNCHANGED <<call, batch, ping, wire, decoding, deriving, process, ui>>

OtherGetAccountInfoRejects(error) ==
  /\ otherCall.pc = "awaitGetAccountInfo"
  /\ \E step \in {CheckDelegationRejected(otherCall, error)} :
        /\ otherCall' = step.call
        /\ reads' = reads \o step.requests
  /\ UNCHANGED <<call, batch, ping, wire, decoding, deriving, process, ui>>

InterleavedLatestBlockhashes ==
  { [blockhash |-> AllOnesStr, lastValidBlockHeight |-> 281474976] }

InterleavedSignerErrors == { Error(<<"User rejected the request.">>) }

InterleavedSignatures == { <<"5", "V", "E", "R">> }

InterleavedConfirmResponses == { [err |-> Absent] }

InterleavedConfirmErrors ==
  { Error(<<"Signature has expired: block height exceeded.">>) }

NextInterleaved ==
  \/ \E k \in {KeyAStr, NotAKeyStr}, u \in {Undefined, CustomUrl} :
        OtherCheckDelegationCall(k, u)
  \/ \E a \in BatchReadAnswers : OtherGetAccountInfoResolves(a)
  \/ \E e \in BatchReadErrors : OtherGetAccountInfoRejects(e)
  \/ \E ks \in {<<KeyAStr>>, <<KeyAStr, KeyBStr>>} :
        CheckMultipleCall(ks, Undefined)
  \/ \E a \in BatchReadAnswers : GetAccountInfoResolves(a)
  \/ \E e \in BatchReadErrors : GetAccountInfoRejects(e)
  \/ CheckMultipleResume
  \/ \E c \in PingConnections : SendPingCall(c, KeyABytes, ProgramBytes)
  \/ \E b \in InterleavedLatestBlockhashes : GetLatestBlockhashResolves(b)
  \/ \E e \in BlockhashErrors : GetLatestBlockhashRejects(e)
  \/ SignTransactionResolves
  \/ \E e \in InterleavedSignerErrors : SignTransactionRejects(e)
  \/ \E g \in InterleavedSignatures : SendRawTransactionResolves(g)
  \/ \E e \in BlockhashErrors : SendRawTransactionRejects(e)
  \/ \E r \in InterleavedConfirmResponses : ConfirmTransactionResolves(r)
  \/ \E e \in InterleavedConfirmErrors : ConfirmTransactionRejects(e)

SpecInterleaved == Init /\ [][NextInterleaved]_vars

(***************************************************************************)
(* The DelegationCheckerInner component.  An event handler runs up to its  *)
(* await (HandleSubmit, HandlePingTransaction) and is resumed when the     *)
(* awaited call has settled (HandleSubmitSettled, HandlePingSettled).  A   *)
(* control that is rendered disabled cannot raise its event.               *)
(***************************************************************************)
\* calls of checkDelegation and sendPingTransaction the component makes
MaxCalls == 2

\* WhiteSpace and LineTerminator of ECMAScript
Whitespace ==
  {" ", "\t", "\n", "\f", "\r", "U+000B", "U+00A0", "U+1680", "U+2000",
   "U+2001", "U+2002", "U+2003", "U+2004", "U+2005", "U+2006", "U+2007",
   "U+2008", "U+2009", "U+200A", "U+2028", "U+2029", "U+202F", "U+205F",
   "U+3000", "U+FEFF"}

RECURSIVE TrimStart(_)
TrimStart(text) ==
  IF text # <<>> /\ text[1] \in Whitespace THEN TrimStart(Tail(text)) ELSE text

\* String.prototype.trim
Trim(text) == Reverse(TrimStart(Reverse(TrimStart(text))))

AccountFieldValues == {KeyAStr, <<" ", " ">>, <<>>}

RpcFieldValues == {<<>>, CustomUrl}

WalletKeyBytes == Repeat(255, 32)

\* err instanceof Error ? err.message : 'Unknown error occurred'
DisplayedMessage(error) ==
  IF error.isError THEN error.message ELSE <<"Unknown error occurred">>

\* handleInputChange
HandleInputChange(name, value) ==
  /\ ui.formState[name] # value
  /\ ui' = [ui EXCEPT !.formState[name] = value]
  /\ UNCHANGED <<call, reads, batch, ping, wire, decoding, deriving, otherCall, process>>

\* the wallet adapter connects, with or without a signTransaction
WalletConnect(signs) ==
  /\ ~ui.connected
  /\ ui' = [ui EXCEPT !.connected = TRUE, !.publicKey = Some(WalletKeyBytes),
                      !.signTransaction = signs]
  /\ UNCHANGED <<call, reads, batch, ping, wire, decoding, deriving, otherCall, process>>

\* mutant: the handler does not mark the check as loading
HandleSubmit_LeavesLoadingUnset ==
  /\ ~ui.loading
  /\ ui.formState.accountPubkey # <<>>
  /\ ui.checksStarted + ui.pingsStarted < MaxCalls
  /\ Trim(ui.formState.accountPubkey) # <<>>
  /\ \E step \in {ComponentCheckDelegationStart(
                     Trim(ui.formState.accountPubkey),
                     IF Trim(ui.formState.rpcUrl) = <<>> THEN Undefined
                     ELSE Trim(ui.formState.rpcUrl))} :
        /\ call' = step.call
        /\ reads' = reads \o step.requests
        /\ ui' = [ui EXCEPT
              !.error = Absent, !.result = Absent,
              !.checksStarted = @ + 1, !.checksOutstanding = @ + 1]
  /\ UNCHANGED <<batch, ping, wire, decoding, deriving, otherCall, process>>

\* handleSubmit, up to its await.  The submit button is disabled while
\* loading, and the form does not submit an empty required field.
HandleSubmit ==
  /\ ~ui.loading
  /\ ui.formState.accountPubkey # <<>>
  /\ IF Trim(ui.formState.accountPubkey) = <<>>
     THEN /\ ui' = [ui EXCEPT
                !.error = Some(<<"Please enter an account public key">>)]
          /\ UNCHANGED <<call, reads, deriving>>
     ELSE /\ ui.checksStarted + ui.pingsStarted < MaxCalls
          /\ \E step \in {ComponentCheckDelegationStart(
                             Trim(ui.formState.accountPubkey),
                             IF Trim(ui.formState.rpcUrl) = <<>> THEN Undefined
                             ELSE Trim(ui.formState.rpcUrl))} :
                /\ call' = step.call
                /\ reads' = reads \o step.requests
                /\ ui' = [ui EXCEPT
                      !.loading = TRUE, !.error = Absent, !.result = Absent,
                      !.checksStarted = @ + 1, !.checksOutstanding = @ + 1]
  /\ UNCHANGED <<batch, ping, wire, decoding, deriving, otherCall, process>>

\* the read of the component's checkDelegation settles
ComponentGetAccountInfoResolves(pdaAccountInfo) ==
  /\ call.pc = "awaitGetAccountInfo"
  /\ UNCHANGED <<batch, ping, wire, decoding, deriving, otherCall, process, ui>>
  /\ \E step \in {ComponentCheckDelegationResolved(call, pdaAccountInfo)} :
        /\ call' = step.call
        /\ reads' = reads \o step.requests

ComponentGetAccountInfoRejects(error) ==
  /\ call.pc = "awaitGetAccountInfo"
  /\ \E step \in {ComponentCheckDelegationRejected(call, error)} :
        /\ call' = step.call
        /\ reads' = reads \o step.requests
  /\ UNCHANGED <<batch, ping, wire, decoding, deriving, otherCall, process, ui>>

\* handleSubmit resumed: try, catch and finally
HandleSubmitSettled ==
  /\ ui.checksOutstanding > 0
  /\ call.pc \in {"returned", "threw"}
  /\ ui' = [ui EXCEPT
        !.result = IF call.pc = "returned" THEN call.result ELSE @,
        !.error = IF call.pc = "threw"
                  THEN Some(DisplayedMessage(call.error[1])) ELSE @,
        !.loading = FALSE,
        !.checksOutstanding = @ - 1]
  /\ UNCHANGED <<call, reads, batch, ping, wire, decoding, deriving, otherCall, process>>

\* clearResults; the button is disabled while loading
ClearResults ==
  /\ ~ui.loading
  /\ ui' = [ui EXCEPT !.result = Absent, !.error = Absent,
                      !.pingResult = Absent, !.pingError = Absent]
  /\ UNCHANGED <<call, reads, batch, ping, wire, decoding, deriving, otherCall, process>>

\* the wallet adapter disconnects
WalletDisconnect ==
  /\ ui.connected
  /\ ui' = [ui EXCEPT !.connected = FALSE, !.publicKey = Absent,
                      !.signTransaction = FALSE]
  /\ UNCHANGED <<call, reads, batch, ping, wire, decoding, deriving, otherCall, process>>

\* the try block of handlePingTransaction up to its await: the target key
\* and the connection, then the call of sendPingTransaction
PingTarget(formState) ==
  Only({ IF targetPubkey.threw THEN targetPubkey
         ELSE Only({ IF connection.threw THEN connection
                     ELSE Return([connection |-> connection.value,
                                  targetPubkey |-> targetPubkey.value]) :
                     connection \in {NewConnection(
                        IF Trim(formState.rpcUrl) = <<>> THEN DEFAULT_RPC_URL
                        ELSE Trim(formState.rpcUrl), "confirmed")} }) :
         targetPubkey \in {PublicKeyFromString(Trim(formState.accountPubkey))} })

\* handlePingTransaction, up to its await.  The button is disabled while
\* the wallet is not connected and while a ping or a check is loading.
HandlePingTransaction ==
  /\ ui.connected /\ ~ui.pingLoading /\ ~ui.loading
  /\ IF ui.publicKey = Absent \/ ~ui.signTransaction
     THEN /\ ui' = [ui EXCEPT
                !.pingError = Some(<<"Please connect your wallet first">>)]
          /\ UNCHANGED <<ping, wire, deriving>>
     ELSE IF Trim(ui.formState.accountPubkey) = <<>>
     THEN /\ ui' = [ui EXCEPT
                !.pingError =
                   Some(<<"Please enter an account public key first">>)]
          /\ UNCHANGED <<ping, wire, deriving>>
     ELSE \E target \in {PingTarget(ui.formState)} :
            IF target.threw
            THEN /\ ui' = [ui EXCEPT
                       !.pingLoading = FALSE,
                       !.pingError = Some(DisplayedMessage(target.error)),
                       !.pingResult = Absent]
                 /\ UNCHANGED <<ping, wire, deriving>>
            ELSE /\ ui.checksStarted + ui.pingsStarted < MaxCalls
                 /\ \E step \in {SendPingStart(target.value.connection,
                                                ui.publicKey[1],
                                                target.value.targetPubkey)} :
                       /\ ping' = step.ping
                       /\ wire' = wire \o step.requests
                       /\ ui' = [ui EXCEPT
                             !.pingLoading = TRUE,
                             !.pingError = Absent, !.pingResult = Absent,
                             !.pingsStarted = @ + 1,
                             !.pingsOutstanding = @ + 1]
  /\ UNCHANGED <<call, reads, batch, decoding, deriving, otherCall, process>>

\* mutant: without the finally block a failed ping stays loading
HandlePingSettled_NoFinally ==
  /\ ui.pingsOutstanding > 0
  /\ ping.pc \in {"returned", "threw"}
  /\ ui' = [ui EXCEPT
        !.pingResult = IF ping.pc = "returned" THEN ping.result ELSE @,
        !.pingError = IF ping.pc = "threw"
                      THEN Some(DisplayedMessage(ping.error[1])) ELSE @,
        !.pingLoading = (ping.pc = "threw"),
        !.pingsOutstanding = @ - 1]
  /\ UNCHANGED <<call, reads, batch, ping, wire, decoding, deriving, otherCall, process>>

\* handlePingTransaction resumed: try, catch and finally
HandlePingSettled ==
  /\ ui.pingsOutstanding > 0
  /\ ping.pc \in {"returned", "threw"}
  /\ ui' = [ui EXCEPT
        !.pingResult = IF ping.pc = "returned" THEN ping.result ELSE @,
        !.pingError = IF ping.pc = "threw"
                      THEN Some(DisplayedMessage(ping.error[1])) ELSE @,
        !.pingLoading = FALSE,
        !.pingsOutstanding = @ - 1]
  /\ UNCHANGED <<call, reads, batch, ping, wire, decoding, deriving, otherCall, process>>

\* the "Ping Transaction Sent" panel, as rendered from the current state
PingResultPanel ==
  [shown |-> ui.pingResult # Absent /\ ui.pingResult # Some(<<>>),
   signature |-> ui.pingResult,
   from |-> IF ui.publicKey = Absent THEN Absent
            ELSE Some(PublicKeyToString(ui.publicKey[1])),
   to |-> ui.formState.accountPubkey,
   rpcUrl |-> IF ui.formState.rpcUrl = <<>> THEN DEFAULT_RPC_URL
              ELSE ui.formState.rpcUrl]

UiReadAnswers ==
  { Some(AccountInfo(1447680, RecordData(100, KeyABytes, 0, 96), ProgramBytes, FALSE, Absent)) }

UiReadErrors == BatchReadErrors

\* the awaited calls of the component's check settle, and its handler resumes
CheckSettles ==
  \/ \E a \in UiReadAnswers :
       ui.checksOutstanding > 0 /\ ComponentGetAccountInfoResolves(a)
  \/ \E e \in UiReadErrors :
       ui.checksOutstanding > 0 /\ ComponentGetAccountInfoRejects(e)
  \/ HandleSubmitSettled

\* the awaited calls of the component's ping settle, and its handler resumes
PingSettles ==
  \/ \E b \in InterleavedLatestBlockhashes :
       ui.pingsOutstanding > 0 /\ GetLatestBlockhashResolves(b)
  \/ \E e \in BlockhashErrors :
       ui.pingsOutstanding > 0 /\ GetLatestBlockhashRejects(e)
  \/ ui.pingsOutstanding > 0 /\ SignTransactionResolves
  \/ \E e \in InterleavedSignerErrors :
       ui.pingsOutstanding > 0 /\ SignTransactionRejects(e)
  \/ \E g \in InterleavedSignatures :
       ui.pingsOutstanding > 0 /\ SendRawTransactionResolves(g)
  \/ \E e \in BlockhashErrors :
       ui.pingsOutstanding > 0 /\ SendRawTransactionRejects(e)
  \/ \E r \in InterleavedConfirmResponses :
       ui.pingsOutstanding > 0 /\ ConfirmTransactionResolves(r)
  \/ \E e \in InterleavedConfirmErrors :
       ui.pingsOutstanding > 0 /\ ConfirmTransactionRejects(e)
  \/ HandlePingSettled

NextUi ==
  \/ \E v \in AccountFieldValues : HandleInputChange("accountPubkey", v)
  \/ \E v \in RpcFieldValues : HandleInputChange("rpcUrl", v)
  \/ \E signs \in BOOLEAN : WalletConnect(signs)
  \/ WalletDisconnect
  \/ HandleSubmit
  \/ ClearResults
  \/ HandlePingTransaction
  \/ CheckSettles
  \/ PingSettles

SpecUi == Init /\ [][NextUi]_vars

FairAccountFieldValues == {KeyAStr, NotAKeyStr}

\* the component with a signing wallet and the default endpoint
NextUiFair ==
  \/ \E v \in FairAccountFieldValues : HandleInputChange("accountPubkey", v)
  \/ WalletConnect(TRUE)
  \/ HandleSubmit
  \/ ClearResults
  \/ HandlePingTransaction
  \/ CheckSettles
  \/ PingSettles

\* promise continuations run once their promise has settled; the awaited
\* network and signer calls are taken to settle
SpecUiFair ==
  Init /\ [][NextUiFair]_vars /\ WF_vars(CheckSettles) /\ WF_vars(PingSettles)

\* cross-checks of the conversions against independently computed values
ConversionsAgree ==
  /\ PublicKeyFromString(KeyAStr) = Return(KeyABytes)
  /\ PublicKeyFromString(DELEGATION_PROGRAM_STR) = Return(ProgramBytes)
  /\ PublicKeyToString(Repeat(255, 32)) = AllOnesStr
  /\ PublicKeyToString(getDelegationRecordPDA(KeyABytes).value) = PdaAStr
  /\ PublicKeyToString(getDelegationRecordPDA(Repeat(0, 32)).value) = PdaBStr
  /\ PublicKeyFromString(LongStr).threw
  /\ PublicKeyFromString(ShortStr).threw
  /\ PublicKeyFromString(<<>>).threw
  /\ PublicKeyFromString(NotAKeyStr).threw

(***************************************************************************)
(* Properties of checkDelegation.                                          *)
(***************************************************************************)
\* key bytes and their base-58 text, as published for these keys
KnownKeyText(bytes) ==
  CASE bytes = KeyABytes -> KeyAStr
    [] bytes = Repeat(0, 32) -> KeyBStr
    [] bytes = Repeat(255, 32) -> AllOnesStr
    [] bytes = ProgramBytes -> DELEGATION_PROGRAM_STR

KnownPdaText(accountPubkeyStr) ==
  CASE accountPubkeyStr = KeyAStr -> PdaAStr
    [] accountPubkeyStr = KeyBStr -> PdaBStr

ValidKeyStrings == {KeyAStr, KeyBStr}

InvalidKeyStrings == KeyStrings \ ValidKeyStrings

\* the read of the direct call resolved, with ReadAnswer
ReadResolved == call.settled # Absent /\ ~call.settled[1].threw

ReadRejected == call.settled # Absent /\ call.settled[1].threw

ReadAnswer == call.settled[1].value

FundedAnswer ==
  ReadResolved /\ ReadAnswer # Absent /\ ReadAnswer[1].lamports # 0

\* C1: a funded account whose data is exactly 96 bytes long makes
\* checkDelegation return DELEGATED, with validatorIdentity the text of the
\* key in bytes 8..39 of the data and rawData.identityBytes those bytes.
C1_FundedRecordIsDelegated ==
  (FundedAnswer /\ Len(ReadAnswer[1].data) = 96) =>
     /\ call.pc = "returned"
     /\ call.result[1].status = "DELEGATED"
     /\ call.result[1].validatorIdentity =
          Some(KnownKeyText(SubSeq(ReadAnswer[1].data, 9, 40)))
     /\ call.result[1].rawData # Absent
     /\ call.result[1].rawData[1].identityBytes =
          SubSeq(ReadAnswer[1].data, 9, 40)

C1_Witness ==
  /\ FundedAnswer
  /\ Len(ReadAnswer[1].data) = 96
  /\ SubSeq(ReadAnswer[1].data, 9, 40) = KeyABytes
  /\ ReadAnswer[1].data[1] # KeyABytes[1]
  /\ call.pc = "returned"
  /\ call.result[1].validatorIdentity = Some(KeyAStr)

\* C2: no account, or an account with zero balance whatever its data,
\* makes checkDelegation return NOT_DELEGATED with pdaAccount,
\* validatorIdentity and rawData all absent.
C2_AbsentOrUnfundedIsNotDelegated ==
  (ReadResolved /\ (ReadAnswer = Absent \/ ReadAnswer[1].lamports = 0)) =>
     /\ call.pc = "returned"
     /\ call.result[1].status = "NOT_DELEGATED"
     /\ call.result[1].pdaAccount = Absent
     /\ call.result[1].validatorIdentity = Absent
     /\ call.result[1].rawData = Absent

C2_Witness ==
  /\ ReadResolved
  /\ ReadAnswer # Absent
  /\ ReadAnswer[1].lamports = 0
  /\ Len(ReadAnswer[1].data) = 96
  /\ call.pc = "returned"
  /\ call.result[1].status = "NOT_DELEGATED"

\* C3: a funded account whose data length is not 96 makes checkDelegation
\* return NOT_DELEGATED without validatorIdentity and rawData, and with
\* pdaAccount holding the balance, owner, data length, executable flag and
\* rent epoch of the read.
C3_FundedOtherLengthKeepsAccount ==
  (FundedAnswer /\ Len(ReadAnswer[1].data) # 96) =>
     /\ call.pc = "returned"
     /\ call.result[1].status = "NOT_DELEGATED"
     /\ call.result[1].validatorIdentity = Absent
     /\ call.result[1].rawData = Absent
     /\ call.result[1].pdaAccount =
          Some([lamports |-> ReadAnswer[1].lamports,
                owner |-> KnownKeyText(ReadAnswer[1].owner),
                dataLength |-> Len(ReadAnswer[1].data),
                executable |-> ReadAnswer[1].executable,
                rentEpoch |-> ReadAnswer[1].rentEpoch])

C3_Witness ==
  /\ FundedAnswer
  /\ Len(ReadAnswer[1].data) = 97
  /\ call.pc = "returned"
  /\ call.result[1].pdaAccount # Absent
  /\ call.result[1].pdaAccount[1].dataLength = 97

\* C4: a key string that does not decode to a 32-byte key makes
\* checkDelegation fail with an error, and no read is put on the network.
C4_InvalidKeyFailsWithoutRead ==
  (call.pc # "idle" /\ call.accountPubkeyStr \in InvalidKeyStrings) =>
     /\ call.pc = "threw"
     /\ call.error # Absent
     /\ call.result = Absent
     /\ reads = <<>>

C4_Witness ==
  /\ call.pc = "threw"
  /\ call.accountPubkeyStr = NotAKeyStr
  /\ call.error = Some(Error(<<"Failed to check delegation: ",
                               "Non-base58 character">>))

\* the endpoint URLs among the inputs that new Connection refuses: one with
\* no http: or https: scheme, and one with the scheme but no "//" and host
RefusedUrls == {BadUrl, NoHostUrl}

\* C5 as stated: every call with a valid key performs exactly one read.
C5_ValidKeyReadsExactlyOnce ==
  (call.pc # "idle" /\ call.accountPubkeyStr \in ValidKeyStrings) =>
     Len(reads) = 1

\* C5, amended: a call with a valid key and an endpoint URL new Connection
\* accepts (an http: or https: URL with "//" and a host after the scheme; an
\* omitted or empty rpcUrl selects the default endpoint) performs exactly
\* one read, at that endpoint, of the derived PDA, never repeated, and a
\* failed read makes the call fail with an error instead of a result; a
\* call whose endpoint URL new Connection refuses, for the missing scheme
\* or for the missing host, performs no read and fails with the error of
\* the constructor.
C5_AcceptedEndpointReadsExactlyOnce ==
  (call.pc # "idle" /\ call.accountPubkeyStr \in ValidKeyStrings) =>
     IF call.rpcUrl \in RefusedUrls
     THEN /\ reads = <<>> /\ call.pc = "threw" /\ call.result = Absent
          /\ call.error[1].message =
               <<"Failed to check delegation: ">>
                 \o (IF call.rpcUrl = BadUrl
                     THEN <<"Endpoint URL must start with ", "U+0060",
                            "http:", "U+0060", " or ", "U+0060", "https:",
                            "U+0060", ".">>
                     ELSE <<"Failed to validate endpoint URL ", "U+0060">>
                            \o call.rpcUrl \o <<"U+0060">>)
     ELSE /\ Len(reads) = 1
          /\ reads[1].endpoint =
               (IF call.rpcUrl = CustomUrl THEN CustomUrl ELSE DEFAULT_RPC_URL)
          /\ PublicKeyToString(reads[1].address) =
               KnownPdaText(call.accountPubkeyStr)
          /\ ReadRejected =>
               call.pc = "threw" /\ call.error # Absent /\ call.result = Absent

C5_Witness ==
  /\ ReadRejected
  /\ call.accountPubkeyStr = KeyAStr
  /\ call.pc = "threw"
  /\ Len(reads) = 1

(***************************************************************************)
(* Properties of checkMultipleDelegations.                                 *)
(***************************************************************************)
\* resolving key number i of the batch failed: a malformed key, a refused
\* endpoint, or a read the network failed
BatchKeyFailed(i) ==
  \/ batch.accountPubkeys[i] \in InvalidKeyStrings
  \/ batch.rpcUrl \in RefusedUrls
  \/ /\ batch.attempts[i].settled # Absent
     /\ batch.attempts[i].settled[1].threw

\* C6: checkMultipleDelegations returns an array as long as its input whose
\* entry i has accountPubkey equal to input key i, whatever succeeded or
\* failed; while it runs, the entries so far are those of the first keys.
C6_BatchKeepsLengthAndOrder ==
  /\ Len(batch.results) <= Len(batch.accountPubkeys)
  /\ \A i \in 1..Len(batch.results) :
        batch.results[i].accountPubkey = batch.accountPubkeys[i]
  /\ batch.pc \notin {"idle", "awaitCheckDelegation"} =>
        Len(batch.results) = Len(batch.accountPubkeys)

C6_Witness ==
  /\ batch.pc = "returned"
  /\ batch.accountPubkeys = <<KeyAStr, NotAKeyStr, KeyBStr>>
  /\ Len(batch.results) = 3
  /\ batch.results[1].status = "DELEGATED"
  /\ batch.results[2] = PlaceholderResult(NotAKeyStr)
  /\ batch.results[3].delegationPDA = PdaBStr

\* C7: a key whose resolution fails does not abort the batch: its slot
\* holds a NOT_DELEGATED placeholder with empty delegationPDA, every other
\* key is attempted and its slot holds what checkDelegation returned for
\* it, and the batch itself never raises.
C7_BatchIsolatesFailures ==
  /\ batch.pc # "threw"
  /\ batch.error = Absent
  /\ Len(batch.attempts) = Len(batch.results)
  /\ batch.pc = "returned" => Len(batch.attempts) = Len(batch.accountPubkeys)
  /\ \A i \in 1..Len(batch.attempts) :
        /\ batch.attempts[i].accountPubkeyStr = batch.accountPubkeys[i]
        /\ batch.attempts[i].rpcUrl = batch.rpcUrl
        /\ IF BatchKeyFailed(i)
           THEN /\ batch.attempts[i].pc = "threw"
                /\ batch.results[i].status = "NOT_DELEGATED"
                /\ batch.results[i].delegationPDA = <<>>
                /\ batch.results[i].pdaAccount = Absent
                /\ batch.results[i].validatorIdentity = Absent
           ELSE /\ batch.attempts[i].pc = "returned"
                /\ batch.results[i] = batch.attempts[i].result[1]
                /\ batch.results[i].delegationPDA =
                     KnownPdaText(batch.accountPubkeys[i])

C7_Witness ==
  /\ batch.pc = "returned"
  /\ Len(batch.attempts) = 3
  /\ batch.attempts[1].settled # Absent
  /\ batch.attempts[1].settled[1].threw
  /\ batch.accountPubkeys[2] = NotAKeyStr
  /\ batch.results[1].delegationPDA = <<>>
  /\ batch.results[2].delegationPDA = <<>>
  /\ batch.results[3].status = "DELEGATED"

(***************************************************************************)
(* Properties of sendPingTransaction.                                      *)
(***************************************************************************)
\* the requests of kind op the invocation has made
Asked(op) == {i \in 1..Len(wire) : wire[i].op = op}

\* the awaited call of kind op resolved / rejected in this invocation
PingResolved(op) ==
  \E i \in 1..Len(ping.answers) :
     ping.answers[i].op = op /\ ~ping.answers[i].threw

PingRejected(op) ==
  \E i \in 1..Len(ping.answers) :
     ping.answers[i].op = op /\ ping.answers[i].threw

\* C8: when the signer rejects, sendPingTransaction fails with an error and
\* neither the submit nor the confirm is called in that invocation.
C8_RefusedSigningStopsThePing ==
  PingRejected("signTransaction") =>
     /\ ping.pc = "threw"
     /\ ping.error # Absent
     /\ ping.result = Absent
     /\ Asked("sendRawTransaction") = {}
     /\ Asked("confirmTransaction") = {}

C8_Witness ==
  /\ PingRejected("signTransaction")
  /\ ping.pc = "threw"
  /\ ping.error = Some(Error(<<"Failed to send ping transaction: ",
                               "User rejected the request.">>))
  /\ Asked("signTransaction") # {}

\* C9: sendPingTransaction returns a signature only when the signer signed,
\* the submit was accepted and the confirmation reported no error; in every
\* other outcome, a confirmation that reports a failed transaction
\* included, it fails with one wrapped error that carries the cause.
C9_SignatureOnlyOnConfirmedSuccess ==
  /\ ping.pc = "returned" =>
        /\ PingResolved("signTransaction")
        /\ PingResolved("sendRawTransaction")
        /\ \E i \in 1..Len(ping.answers) :
              /\ ping.answers[i].op = "confirmTransaction"
              /\ ~ping.answers[i].threw
              /\ ping.answers[i].value.err = Absent
        /\ ping.result = ping.signature
  /\ (\E i \in 1..Len(ping.answers) :
         \/ ping.answers[i].threw
         \/ /\ ping.answers[i].op = "confirmTransaction"
            /\ ~ping.answers[i].threw
            /\ ping.answers[i].value.err # Absent) =>
        /\ ping.pc = "threw"
        /\ ping.result = Absent
        /\ ping.error # Absent
        /\ ping.error[1].message[1] = "Failed to send ping transaction: "

\* C10: in every invocation the signer is invoked at most once, exactly
\* once when the blockhash fetch succeeded, and always with the unsigned
\* transaction built in that invocation.
C10_SignerAskedOnceWithOwnTransaction ==
  /\ Cardinality(Asked("signTransaction")) <= 1
  /\ PingResolved("getLatestBlockhash") =>
        Cardinality(Asked("signTransaction")) = 1
  /\ \A i \in Asked("signTransaction") :
        /\ wire[i].transaction.signatures = <<>>
        /\ wire[i].transaction.instructions =
             <<SystemTransfer(ping.fromPubkey[1], ping.toPubkey[1], 0)>>
        /\ wire[i].transaction.feePayer = ping.fromPubkey
        /\ wire[i].transaction.recentBlockhash =
             Some(ping.answers[1].value.blockhash)

C10_Witness ==
  /\ ping.pc = "returned"
  /\ PingResolved("getLatestBlockhash")
  /\ Cardinality(Asked("signTransaction")) = 1
  /\ ping.fromPubkey # ping.toPubkey

\* the steps of one invocation, in the order of the code
PingSteps ==
  <<"getLatestBlockhash", "signTransaction", "sendRawTransaction",
    "confirmTransaction">>

\* C11: within one invocation the requests are blockhash fetch, sign,
\* submit, confirm, in that order and each at most once; a step that
\* fails (an exceeded validity height at the confirmation included) ends
\* the invocation with a failure, and no request follows it.
C11_StepsInOrderAtMostOnce ==
  /\ Len(wire) <= Len(PingSteps)
  /\ \A i \in 1..Len(wire) : wire[i].op = PingSteps[i]
  /\ \A i \in 1..Len(ping.answers) :
        /\ ping.answers[i].op = PingSteps[i]
        /\ ping.answers[i].threw =>
              /\ ping.pc = "threw"
              /\ ping.result = Absent
              /\ ping.error # Absent
              /\ Len(ping.answers) = i
              /\ Len(wire) = i

C11_Witness ==
  /\ ping.pc = "threw"
  /\ Len(wire) = 4
  /\ Len(ping.answers) = 4
  /\ ping.answers[4].threw
  /\ ping.answers[4].error =
       Error(<<"Signature has expired: block height exceeded.">>)

\* what getLatestBlockhash answered in this invocation
FetchedLatest == ping.answers[1].value

\* C12 as stated: the transaction handed to the signer carries the
\* blockhash just fetched, the validity-height bound fetched with it, and
\* fromKey as fee payer.
C12_SignerGetsBlockhashHeightAndPayer ==
  \A i \in Asked("signTransaction") :
     /\ wire[i].transaction.recentBlockhash = Some(FetchedLatest.blockhash)
     /\ wire[i].transaction.lastValidBlockHeight =
          Some(FetchedLatest.lastValidBlockHeight)
     /\ wire[i].transaction.feePayer = ping.fromPubkey

\* C12, amended: the transaction handed to the signer carries the
\* blockhash just fetched and fromKey as fee payer; the validity-height
\* bound fetched with it is not put on the transaction, it is kept by the
\* invocation.
C12_SignerGetsBlockhashAndPayer ==
  \A i \in Asked("signTransaction") :
     /\ wire[i].transaction.recentBlockhash = Some(FetchedLatest.blockhash)
     /\ wire[i].transaction.feePayer = ping.fromPubkey
     /\ wire[i].transaction.lastValidBlockHeight = Absent
     /\ ping.lastValidBlockHeight = Some(FetchedLatest.lastValidBlockHeight)

C12_Witness ==
  /\ Asked("signTransaction") # {}
  /\ ping.fromPubkey = Some(KeyABytes)
  /\ ping.toPubkey = Some(ProgramBytes)
  /\ FetchedLatest.blockhash = PdaBStr
  /\ wire[2].transaction.feePayer = Some(KeyABytes)
  /\ wire[2].transaction.recentBlockhash = Some(PdaBStr)

\* C13: the confirm request carries the signature the submit of this
\* invocation returned, and the blockhash and last valid height that were
\* fetched in this invocation and stamped before signing.
C13_ConfirmUsesOwnSignatureAndBlockhash ==
  \A i \in Asked("confirmTransaction") :
     /\ ping.answers[3].op = "sendRawTransaction"
     /\ wire[i].signature = ping.answers[3].value
     /\ wire[i].blockhash = FetchedLatest.blockhash
     /\ wire[i].lastValidBlockHeight = FetchedLatest.lastValidBlockHeight
     /\ Some(wire[i].blockhash) = wire[2].transaction.recentBlockhash
     /\ wire[i].endpoint = wire[1].endpoint

C13_Witness ==
  /\ Asked("confirmTransaction") = {4}
  /\ wire[4].signature = <<"2", "j", "g", "X">>
  /\ wire[4].blockhash = AllOnesStr
  /\ wire[4].lastValidBlockHeight = 281475126
  /\ ping.pc = "returned"

(***************************************************************************)
(* Properties of extractDelegationIdentity.                                *)
(***************************************************************************)
\* C14: for every byte sequence whose length is not 96 (0, 95, 97 and 1000
\* included) extractDelegationIdentity returns no value: no partial
\* result, no error.
C14_OtherLengthsDecodeToNothing ==
  (decoding.pc # "idle" /\ Len(decoding.data) # 96) =>
     /\ decoding.pc = "returned"
     /\ decoding.result = Some(Return(Absent))

C14_Witness ==
  /\ decoding.pc = "returned"
  /\ Len(decoding.data) = 1000
  /\ SubSeq(decoding.data, 9, 40) = KeyABytes
  /\ decoding.result = Some(Return(Absent))

\* C15: for every 96-byte sequence extractDelegationIdentity does not
\* raise and returns an identity whose 32 bytes are bytes 8..39 of the
\* input, whatever those bytes and the other bytes are.
C15_RecordDecodesToItsIdentityBytes ==
  (decoding.pc # "idle" /\ Len(decoding.data) = 96) =>
     /\ decoding.pc = "returned"
     /\ ~decoding.result[1].threw
     /\ decoding.result[1].value # Absent
     /\ Len(decoding.result[1].value[1]) = 32
     /\ \A i \in 1..32 :
           decoding.result[1].value[1][i] = decoding.data[8 + i]

C15_Witness ==
  /\ decoding.pc = "returned"
  /\ Len(decoding.data) = 96
  /\ decoding.data[1] = 255
  /\ decoding.data[96] = 0
  /\ decoding.result = Some(Return(Some(Repeat(0, 32))))

\* the direct call as it was while it awaited its read
CallBeforeRead ==
  [call EXCEPT !.pc = "awaitGetAccountInfo", !.settled = Absent,
               !.result = Absent, !.error = Absent]

\* two funded accounts that agree on whether their data is 96 bytes long
SameClass(a, b) ==
  /\ a.lamports # 0
  /\ b.lamports # 0
  /\ (Len(a.data) = 96) <=> (Len(b.data) = 96)

\* C16: the status checkDelegation gives a funded account depends only on
\* whether its data is 96 bytes long: a read that differs in the
\* discriminator, the bytes after the identity, the owner, the executable
\* flag or the rent epoch gets the same status.
C16_StatusDependsOnLengthOnly ==
  FundedAnswer =>
     /\ call.pc = "returned"
     /\ \A b \in AccountInfos :
           SameClass(ReadAnswer[1], b) =>
              LET other == CheckDelegationResolved(CallBeforeRead, Some(b)).call
              IN  /\ other.pc = "returned"
                  /\ other.result[1].status = call.result[1].status

C16_Witness ==
  /\ FundedAnswer
  /\ call.pc = "returned"
  /\ call.result[1].status = "DELEGATED"
  /\ ReadAnswer[1].data[1] = 7
  /\ ReadAnswer[1].data[96] = 9
  /\ ReadAnswer[1].owner = SystemProgramBytes
  /\ ReadAnswer[1].executable
  /\ ReadAnswer[1].rentEpoch = Absent

(***************************************************************************)
(* Properties of the address derivation.                                   *)
(***************************************************************************)
\* the invocations of checkDelegation of a state: the one made on its own,
\* those a batch has made, and the one a batch awaits
Invocations ==
  {otherCall} \cup {batch.attempts[i] : i \in 1..Len(batch.attempts)}
    \cup (IF batch.pc = "awaitCheckDelegation" THEN {call} ELSE {})

\* the address published for each valid key, as bytes
KnownPdaBytes(accountPubkeyStr) ==
  CASE accountPubkeyStr = KeyAStr -> DigestA253
    [] accountPubkeyStr = KeyBStr -> DigestB255

\* C17: the derived address depends on the account key and on nothing
\* else: every call of checkDelegation for a key derives the address
\* published for that key, whichever endpoint it was given, whatever its
\* read answered and whichever calls ran beside it, so any two calls for
\* the same key derive the same address and any two results for the same
\* key carry the same delegationPDA.
C17_SameKeySameAddress ==
  /\ \A x \in Invocations :
        /\ x.delegationPDA # Absent =>
              x.delegationPDA[1] = KnownPdaBytes(x.accountPubkeyStr)
        /\ x.pc = "returned" =>
              x.result[1].delegationPDA = KnownPdaText(x.accountPubkeyStr)
  /\ \A x, y \in Invocations :
        x.accountPubkeyStr = y.accountPubkeyStr =>
           /\ (x.delegationPDA # Absent /\ y.delegationPDA # Absent) =>
                 x.delegationPDA = y.delegationPDA
           /\ (x.pc = "returned" /\ y.pc = "returned") =>
                 x.result[1].delegationPDA = y.result[1].delegationPDA

\* two calls for one key, at different endpoints and with different
\* answers, carry the same address
C17_Witness ==
  /\ otherCall.pc = "returned"
  /\ otherCall.accountPubkeyStr = KeyAStr
  /\ otherCall.rpcUrl = CustomUrl
  /\ otherCall.result[1].status = "DELEGATED"
  /\ Len(batch.attempts) >= 1
  /\ batch.attempts[1].pc = "returned"
  /\ batch.attempts[1].accountPubkeyStr = KeyAStr
  /\ batch.attempts[1].connection[1].rpcEndpoint = DEFAULT_RPC_URL
  /\ batch.attempts[1].result[1].status = "NOT_DELEGATED"
  /\ otherCall.result[1].delegationPDA = PdaAStr
  /\ batch.attempts[1].result[1].delegationPDA = PdaAStr

\* the candidate address of a key for one bump
Candidate(accountPubkey, bump) ==
  Sha256[PdaPreimage(<<SeedDelegation, accountPubkey, <<bump>>>>, ProgramBytes)]

\* the highest of the bumps 1..255 that are taken to be off the curve, or
\* 0 when there is none: bump 0 is not among those the search tries
HighestAssumed(bumps) ==
  LET tried == bumps \cap (1..255)
  IN  IF tried = {} THEN 0
      ELSE CHOOSE b \in tried : \A c \in tried : c <= b

\* the bump the search is to end at: under SHA-256 the one published for
\* the key, and with assumed digests the highest of them in 1..255
ExpectedBump ==
  IF deriving.assumed = Absent
  THEN IF deriving.accountPubkey = KeyABytes THEN 253 ELSE 255
  ELSE HighestAssumed(deriving.assumed[1])

\* C18: the address findProgramAddressSync returns is off the curve: it is
\* the candidate of the first bump, counting down from 255, whose candidate
\* is not a curve point, and when no bump it tries has such a candidate it
\* throws an error and returns no address.  Under SHA-256 the keys of the
\* model end at the bumps published for them, and the address is the one
\* getDelegationRecordPDA gives checkDelegation; with assumed digests any
\* bump may be the first, or none.
C18_DerivedAddressIsOffCurve ==
  /\ deriving.pc = "searching" =>
        /\ deriving.result = Absent
        /\ deriving.nonce >= ExpectedBump
  /\ deriving.pc \in {"returned", "threw"} =>
        LET result == deriving.result[1]
        IN  IF ExpectedBump = 0
            THEN /\ deriving.pc = "threw"
                 /\ result.value = Absent
                 /\ result.error =
                      Error(<<"Unable to find a viable program address nonce">>)
            ELSE /\ deriving.pc = "returned"
                 /\ result.value[2] = ExpectedBump
                 /\ ~IsOnCurve(result.value[1])
                 /\ result.value[1] \notin {DigestA255, DigestA254}
                 /\ result.value[1] =
                      (IF deriving.assumed = Absent THEN Sha256
                       ELSE DigestsOffCurveAt(deriving.assumed[1]))[PdaPreimage(
                         <<SeedDelegation, deriving.accountPubkey,
                           <<ExpectedBump>>>>, ProgramBytes)]
                 /\ deriving.assumed = Absent =>
                      /\ result.value[1] =
                           getDelegationRecordPDA(deriving.accountPubkey).value
                      /\ \A b \in (ExpectedBump + 1)..255 :
                            IsOnCurve(Candidate(deriving.accountPubkey, b))

\* every candidate is a curve point and the search ends with the error
C18_Witness ==
  /\ deriving.pc = "threw"
  /\ deriving.accountPubkey = KeyABytes
  /\ deriving.assumed = Some({})
  /\ deriving.nonce = 0
  /\ deriving.result[1].threw

(***************************************************************************)
(* Properties of the errors.                                               *)
(***************************************************************************)
\* the error sendPingTransaction throws for a cause
PingFailure(cause) == SendPingCatch(IdlePing, cause).ping.error[1]

ExpiryErrors ==
  { Error(<<"Signature has expired: block height exceeded.">>) }

\* the errors a caller may get for each kind of failure
PingFailuresOfKind(kind) ==
  CASE kind = "SigningRejected" -> {PingFailure(e) : e \in SignerErrors}
    [] kind = "ConfirmationTimeout" -> {PingFailure(e) : e \in ExpiryErrors}
    [] kind = "NetworkFailure" ->
         {PingFailure(e) :
            e \in (BlockhashErrors \cup SubmitErrors \cup ConfirmErrors)
                     \ ExpiryErrors}

PingFailureKinds == {"SigningRejected", "ConfirmationTimeout", "NetworkFailure"}

\* the kind of the failure that ended this invocation
PingFailureKind ==
  LET last == ping.answers[Len(ping.answers)]
  IN  IF last.op = "signTransaction" THEN "SigningRejected"
      ELSE IF last.error \in ExpiryErrors THEN "ConfirmationTimeout"
      ELSE "NetworkFailure"

\* C19: the failures reach the caller as error kinds it can tell apart:
\* the error of a refused signing is never one a network failure or an
\* exceeded validity height produces, and likewise for the other kinds.
C19_CallerTellsFailureKindsApart ==
  (ping.pc = "threw" /\ ping.answers # <<>>
     /\ ping.answers[Len(ping.answers)].threw) =>
     /\ ping.error[1] \in PingFailuresOfKind(PingFailureKind)
     /\ \A kind \in PingFailureKinds \ {PingFailureKind} :
           ping.error[1] \notin PingFailuresOfKind(kind)

(***************************************************************************)
(* Shape of the results.                                                   *)
(***************************************************************************)
\* C21: in every result checkDelegation returns, validatorIdentity is
\* present exactly when status is DELEGATED, rawData is present exactly
\* when status is DELEGATED, and DELEGATED comes with a pdaAccount of
\* dataLength 96 and non-zero lamports.
C21_DelegatedExactlyWithIdentity ==
  call.pc = "returned" =>
     LET result == call.result[1]
     IN  /\ result.status \in {"DELEGATED", "NOT_DELEGATED"}
         /\ (result.validatorIdentity # Absent) <=> (result.status = "DELEGATED")
         /\ (result.rawData # Absent) <=> (result.status = "DELEGATED")
         /\ result.status = "DELEGATED" =>
               /\ result.pdaAccount # Absent
               /\ result.pdaAccount[1].dataLength = 96
               /\ result.pdaAccount[1].lamports # 0

C21_Witness ==
  /\ call.pc = "returned"
  /\ call.result[1].status = "DELEGATED"
  /\ call.result[1].validatorIdentity = Some(AllOnesStr)
  /\ call.result[1].pdaAccount[1].lamports = 1
  /\ call.result[1].pdaAccount[1].dataLength = 96

(***************************************************************************)
(* Properties of the file loaded by Node.js.                               *)
(***************************************************************************)
\* C22: in Node.js the environment variable SOLANA_RPC_URL, when set, is
\* the endpoint checkDelegation reads from when no rpcUrl argument is
\* passed; an rpcUrl argument, when passed, is the endpoint used.
C22_EnvironmentSetsEndpoint ==
  reads # <<>> =>
     reads[1].endpoint =
       IF call.rpcUrl # Undefined /\ call.rpcUrl # <<>> THEN call.rpcUrl
       ELSE IF process.env # Absent THEN process.env[1]
       ELSE DEFAULT_RPC_URL

\* C26: loading check_delegation.ts as a module, for programmatic use,
\* performs no delegation check and no network call of its own and never
\* ends the process; that happens only when the file is run as the
\* command-line program.
C26_ImportRunsNothing ==
  process.entry = "module" =>
     /\ call.pc = "idle"
     /\ reads = <<>>
     /\ process.stdout = <<>>
     /\ process.exitCode = Absent

(***************************************************************************)
(* Order of the reads of a batch.                                          *)
(***************************************************************************)
\* the keys of the batch whose resolution has been started
BatchStarted ==
  Len(batch.attempts) + (IF batch.pc = "awaitCheckDelegation" THEN 1 ELSE 0)

\* the reads of the batch that have settled
BatchReadsSettled ==
  Cardinality({i \in 1..Len(batch.attempts) :
                 batch.attempts[i].settled # Absent})
    + (IF batch.pc = "awaitCheckDelegation" /\ call.settled # Absent
       THEN 1 ELSE 0)

\* the addresses a sequential batch has read so far: one for every started
\* key that parses, in input order
BatchReadsExpected ==
  LET started == SubSeq(batch.accountPubkeys, 1, BatchStarted)
      valid == SelectSeq(started, LAMBDA k : k \in ValidKeyStrings)
  IN  IF batch.rpcUrl \in RefusedUrls THEN <<>>
      ELSE [i \in 1..Len(valid) |->
              IF valid[i] = KeyAStr THEN DigestA253 ELSE DigestB255]

\* C23: checkMultipleDelegations is sequential: at most one read is
\* outstanding at any moment, the read for a key is issued only after the
\* resolution of the key before it has settled, and each key is attempted
\* exactly once, in input order.
C23_BatchIsSequential ==
  /\ Len(reads) - BatchReadsSettled \in {0, 1}
  /\ (Len(reads) - BatchReadsSettled = 1) <=> (call.pc = "awaitGetAccountInfo")
  /\ BatchStarted <= Len(batch.accountPubkeys)
  /\ batch.pc = "returned" => BatchStarted = Len(batch.accountPubkeys)
  /\ [i \in 1..Len(reads) |-> reads[i].address] = BatchReadsExpected
  /\ \A i \in 1..Len(batch.attempts) :
        /\ batch.attempts[i].accountPubkeyStr = batch.accountPubkeys[i]
        /\ batch.attempts[i].pc \in {"returned", "threw"}

C23_Witness ==
  /\ batch.pc = "awaitCheckDelegation"
  /\ call.pc = "awaitGetAccountInfo"
  /\ batch.accountPubkeys = <<KeyAStr, NotAKeyStr, KeyBStr>>
  /\ Len(batch.attempts) = 2
  /\ batch.attempts[1].pc = "threw"
  /\ batch.attempts[1].settled # Absent
  /\ Len(reads) = 2
  /\ reads[2].address = DigestB255

\* C25: in the array checkMultipleDelegations returns a placeholder can be
\* told from a real outcome: an entry has an empty delegationPDA exactly
\* when resolving its key failed, and every result of a successful
\* checkDelegation carries the derived address, which is not empty.
C25_EmptyAddressExactlyOnFailure ==
  \A i \in 1..Len(batch.results) :
     /\ (batch.results[i].delegationPDA = <<>>) <=> BatchKeyFailed(i)
     /\ (batch.results[i].delegationPDA = <<>>) <=>
          (batch.attempts[i].pc = "threw")
     /\ batch.attempts[i].pc = "returned" =>
          /\ Len(batch.results[i].delegationPDA) \in 32..44
          /\ Base58Decode(batch.results[i].delegationPDA) =
               Return(batch.attempts[i].delegationPDA[1])

C25_Witness ==
  /\ batch.pc = "returned"
  /\ batch.accountPubkeys = <<NotAKeyStr, KeyAStr, KeyAStr>>
  /\ batch.results[1].delegationPDA = <<>>
  /\ batch.results[2].delegationPDA = PdaAStr
  /\ batch.results[3].delegationPDA = <<>>
  /\ batch.attempts[3].settled # Absent

(***************************************************************************)
(* The copies of checkDelegation.                                          *)
(***************************************************************************)
\* C30: the copies of checkDelegation are equivalent: for the same key
\* string, endpoint and network response they all fail, or all return
\* results equal in status, delegationPDA, validatorIdentity, rawData and
\* every pdaAccount field, rentEpoch included when the read carries none.
C30_CopiesReturnEqualResults ==
  ReadResolved =>
     LET copy == ComponentCheckDelegationResolved(CallBeforeRead, ReadAnswer).call
     IN  /\ copy.pc = call.pc
         /\ copy.error = call.error
         /\ copy.result = call.result

(***************************************************************************)
(* Properties of the DelegationCheckerInner component.                     *)
(***************************************************************************)
\* C24: at most one checkDelegation call and at most one
\* sendPingTransaction call of the component is outstanding at any time:
\* while a check (a ping) is loading no second one can be started, whatever
\* the user does.
C24_OneCallOutstanding ==
  /\ ui.checksOutstanding <= 1
  /\ ui.pingsOutstanding <= 1
  /\ ui.checksOutstanding = 1 => ui.loading
  /\ ui.pingsOutstanding = 1 => ui.pingLoading

\* a second check was started after the first settled, and is outstanding
\* (the call budget is spent on the two checks)
C24_Witness ==
  /\ ui.checksStarted = 2
  /\ ui.checksOutstanding = 1
  /\ ui.loading
  /\ call.pc = "awaitGetAccountInfo"

\* C27: error and result are never both non-null, and pingError and
\* pingResult are never both non-null, after any sequence of submit, ping
\* and clear actions.
C27_ErrorAndResultExclusive ==
  /\ ~(ui.error # Absent /\ ui.result # Absent)
  /\ ~(ui.pingError # Absent /\ ui.pingResult # Absent)

\* C28: once loading (pingLoading) is true it becomes false again when the
\* awaited call has settled, by success or failure, and at that point
\* exactly one of the result and the error of that operation is set; the
\* network and signer calls are taken to settle.
C28_LoadingEndsWithOneOutcome ==
  /\ ui.loading ~> ~ui.loading
  /\ ui.pingLoading ~> ~ui.pingLoading
  /\ [][(ui.loading /\ ~ui'.loading) =>
          /\ call.pc \in {"returned", "threw"}
          /\ (ui'.result # Absent) # (ui'.error # Absent)
          /\ (ui'.result # Absent) <=> (call.pc = "returned")]_vars
  /\ [][(ui.pingLoading /\ ~ui'.pingLoading) =>
          /\ ping.pc \in {"returned", "threw"}
          /\ (ui'.pingResult # Absent) # (ui'.pingError # Absent)
          /\ (ui'.pingResult # Absent) <=> (ping.pc = "returned")]_vars

\* a check and a ping have both failed and neither is loading any more
C28_Witness ==
  /\ call.pc = "threw" /\ ping.pc = "threw"
  /\ ui.checksStarted = 1 /\ ui.pingsStarted = 1
  /\ ~ui.loading /\ ~ui.pingLoading
  /\ ui.error # Absent /\ ui.result = Absent
  /\ ui.pingError # Absent /\ ui.pingResult = Absent

\* C29: the target account and the RPC URL shown with a successful ping
\* are the account and the endpoint the ping was sent to, also when the
\* form fields are edited after the ping was started or completed.
C29_PanelShowsWhereThePingWent ==
  PingResultPanel.shown =>
     /\ ping.pc = "returned"
     /\ PingResultPanel.signature = ping.result
     /\ PingResultPanel.to = PublicKeyToString(ping.toPubkey[1])
     /\ PingResultPanel.rpcUrl = ping.connection[1].rpcEndpoint
====
